---------------------------- MODULE Spec2Model ----------------------------
(***************************************************************************)
(* rlox: the static scope resolver (compiler/resolver.rs) and the          *)
(* tree-walking evaluator (compiler/interpreter.rs, env.rs,                *)
(* lox_function.rs, control_flow.rs), driven the way the test helper       *)
(* `execute` drives them: resolve the whole statement list, stop on an     *)
(* error-class diagnostic, otherwise interpret statement by statement.     *)
(*                                                                         *)
(* The visitors are recursive functions over the AST; they are modelled as *)
(* recursive operators that thread the interpreter (resp. resolver) state  *)
(* and return what the Rust function returns.  A history of events         *)
(* (`trace`) is threaded with the interpreter state so that properties of  *)
(* what happened inside one top-level statement can be stated; the         *)
(* resolver state carries a history of its own.                            *)
(*                                                                         *)
(* Spec is the test helper `execute`; SpecRun is Lox::run of main.rs,      *)
(* which interprets without resolving; SpecEnv calls Env::get_at and       *)
(* Env::assign on chains of environments, outside any program; SpecScope   *)
(* makes the resolver's declare, define and variable read on one scope.    *)
(***************************************************************************)
EXTENDS Integers, Sequences, FiniteSets, TLC

\* ------------------------------------------------------------------ bounds
\* host stack: nested LoxFunction::call activations before the stack overflows
MaxDepth == 3
\* iterations of one `while` execution that are followed
MaxIter == 4
\* largest argument of the factorial programs
MaxFact == 2
\* nesting levels wrapped around the declarations of the scope programs
MaxNest == 2
\* declared parameters and passed arguments of the arity programs
MaxParams == 2
MaxArgs == 3
\* readings of the host clock
MaxClock == 1
\* environments in a chain handed to the methods of Env called on their own
MaxChain == 3
\* operations in a sequence made on one resolver scope
MaxOps == 4

\* ------------------------------------------------------------------ values
Nil == [t |-> "nil"]
Bool(b) == [t |-> "bool", b |-> b]
Num(n) == [t |-> "num", n |-> n]
Str(s) == [t |-> "str", s |-> s]
Fn(i) == [t |-> "fn", f |-> i]

\* Object::eq
Object_eq(a, b) ==
    IF a.t # b.t THEN FALSE
    ELSE CASE a.t = "nil" -> TRUE
           [] a.t = "bool" -> a.b = b.b
           [] a.t = "num" -> a.n = b.n
           [] a.t = "str" -> a.s = b.s
           [] a.t = "fn" -> a.f = b.f

\* ------------------------------------------------------------------ errors
NoError == [kind |-> "none", message |-> "", name |-> "", nums |-> <<>>]
new_runtime(message, name, nums) ==
    [kind |-> "Runtime", message |-> message, name |-> name, nums |-> nums]
new_parse(message, name) ==
    [kind |-> "Parse", message |-> message, name |-> name, nums |-> <<>>]
new_internal(message, name) ==
    [kind |-> "Internal", message |-> message, name |-> name, nums |-> <<>>]
new_warning(message, name) ==
    [kind |-> "Warning", message |-> message, name |-> name, nums |-> <<>>]
\* the process dies (host stack exhausted) or the run is cut off in a loop:
\* not a LoxError, nothing unwinds
Abort(what) == [kind |-> "Abort", message |-> what, name |-> "", nums |-> <<>>]

\* ------------------------------------------------------------------ control flow
FlowNone == [f |-> "None"]
FlowReturn(v) == [f |-> "Return", v |-> v]

\* FlowResult<Object> together with the interpreter state after the call
ok(st, v) == [ok |-> TRUE, st |-> st, v |-> v, flow |-> FlowNone, err |-> NoError]
return_value(st, v) ==
    [ok |-> TRUE, st |-> st, v |-> Nil, flow |-> FlowReturn(v), err |-> NoError]
Err(st, e) == [ok |-> FALSE, st |-> st, v |-> Nil, flow |-> FlowNone, err |-> e]
Aborted(r) == ~r.ok /\ r.err.kind = "Abort"

Log(st, e) == [st EXCEPT !.trace = Append(@, e)]

\* ------------------------------------------------------------------ AST
Lit(v) == [k |-> "Literal", value |-> v]
Var(name, id) == [k |-> "Variable", name |-> name, id |-> id]
Assign(name, value, id) == [k |-> "Assign", name |-> name, value |-> value, id |-> id]
Bin(l, op, r) == [k |-> "Binary", left |-> l, operator |-> op, right |-> r]
Logical(l, op, r, id) ==
    [k |-> "Logical", left |-> l, operator |-> op, right |-> r, id |-> id]
Grouping(e) == [k |-> "Grouping", expression |-> e]
Call(callee, args) == [k |-> "Call", callee |-> callee, args |-> args]

NoStmt == [k |-> "NoStmt"]
SExpr(e) == [k |-> "Expression", expression |-> e]
SPrint(e) == [k |-> "Print", expression |-> e]
SVar(name, init) == [k |-> "Var", name |-> name, initializer |-> init]
SBlock(stmts) == [k |-> "Block", statements |-> stmts]
SIf(c, t, e) == [k |-> "IfStmt", condition |-> c, then_branch |-> t, else_branch |-> e]
SWhile(c, b) == [k |-> "WhileStmt", condition |-> c, body |-> b]
SFun(name, params, body) ==
    [k |-> "Function", name |-> name, parameters |-> params, body |-> SBlock(body)]
SReturn(e) == [k |-> "ReturnStmt", value |-> e]

\* ------------------------------------------------------------------ Env
EmptyMap == [x \in {} |-> Nil]
\* Env::new_global
new_global == [enclosing |-> 0, bindings |-> EmptyMap]
\* Env::new_enclosed: the environment is allocated (Rc::new) at the next index
new_enclosed(enclosing) == [enclosing |-> enclosing, bindings |-> EmptyMap]

\* Env::define as it would be if the insert also went through to a binding of
\* the same name in the enclosing environment
Env_define_through(envs, e, name, value) ==
    LET here == [envs EXCEPT ![e].bindings = (name :> value) @@ @]
        enc == envs[e].enclosing
    IN IF enc # 0 /\ name \in DOMAIN envs[enc].bindings
       THEN [here EXCEPT ![enc].bindings = (name :> value) @@ @]
       ELSE here

\* Env::define: insert or overwrite in this environment only
Env_define(envs, e, name, value) ==
    [envs EXCEPT ![e].bindings = (name :> value) @@ @]

RECURSIVE Env_get_nil(_, _, _)
\* Env::get as it would be if a name bound nowhere read as nil
Env_get_nil(envs, e, name) ==
    IF name \in DOMAIN envs[e].bindings
    THEN [ok |-> TRUE, v |-> envs[e].bindings[name], err |-> NoError]
    ELSE IF envs[e].enclosing # 0
         THEN Env_get_nil(envs, envs[e].enclosing, name)
         ELSE [ok |-> TRUE, v |-> Nil, err |-> NoError]

RECURSIVE Env_get(_, _, _)
\* Env::get: this environment, then the enclosing chain
Env_get(envs, e, name) ==
    IF name \in DOMAIN envs[e].bindings
    THEN [ok |-> TRUE, v |-> envs[e].bindings[name], err |-> NoError]
    ELSE IF envs[e].enclosing # 0
         THEN Env_get(envs, envs[e].enclosing, name)
         ELSE [ok |-> FALSE, v |-> Nil,
               err |-> new_runtime("Undefined variable '{}' during get.", name, <<>>)]

RECURSIVE ancestor_loop(_, _, _, _)
\* the loop `for _ in 1..distance` of Env::ancestor: each turn unwraps the
\* enclosing environment of `current`, and panics if there is none
ancestor_loop(envs, current, i, distance) ==
    IF i >= distance THEN [ok |-> TRUE, env |-> current, err |-> NoError]
    ELSE IF envs[current].enclosing = 0
         THEN [ok |-> FALSE, env |-> 0,
               err |-> Abort("called Option::unwrap() on a None value")]
         ELSE ancestor_loop(envs, envs[current].enclosing, i + 1, distance)

\* Env::ancestor: starts from the unwrapped enclosing environment of self
Env_ancestor(envs, e, distance) ==
    IF envs[e].enclosing = 0
    THEN [ok |-> FALSE, env |-> 0,
          err |-> Abort("called Option::unwrap() on a None value")]
    ELSE ancestor_loop(envs, envs[e].enclosing, 1, distance)

\* Env::get_at after `self.ancestor(distance)?`
get_at_in(envs, found, name) ==
    IF ~found.ok THEN [ok |-> FALSE, v |-> Nil, err |-> found.err]
    ELSE IF name \in DOMAIN envs[found.env].bindings
         THEN [ok |-> TRUE, v |-> envs[found.env].bindings[name], err |-> NoError]
         ELSE [ok |-> FALSE, v |-> Nil, err |-> new_internal("undefined var: {}", name)]

\* Env::get_at
Env_get_at(envs, e, distance, name) ==
    get_at_in(envs, Env_ancestor(envs, e, distance), name)

RECURSIVE Env_assign_implicit(_, _, _, _)
\* Env::assign as it would be if a name bound nowhere were created in the
\* outermost environment
Env_assign_implicit(envs, e, name, value) ==
    IF name \in DOMAIN envs[e].bindings \/ envs[e].enclosing = 0
    THEN [ok |-> TRUE,
          envs |-> [envs EXCEPT ![e].bindings = (name :> value) @@ @],
          err |-> NoError]
    ELSE Env_assign_implicit(envs, envs[e].enclosing, name, value)

RECURSIVE Env_assign_every(_, _, _, _)
\* Env::assign as it would be if it went on to the enclosing environments
\* after writing the nearest binding
Env_assign_every(envs, e, name, value) ==
    IF name \in DOMAIN envs[e].bindings
    THEN IF envs[e].enclosing # 0
         THEN [Env_assign_every([envs EXCEPT ![e].bindings[name] = value],
                                envs[e].enclosing, name, value)
                 EXCEPT !.ok = TRUE, !.err = NoError]
         ELSE [ok |-> TRUE, envs |-> [envs EXCEPT ![e].bindings[name] = value],
               err |-> NoError]
    ELSE IF envs[e].enclosing # 0
         THEN Env_assign_every(envs, envs[e].enclosing, name, value)
         ELSE [ok |-> FALSE, envs |-> envs,
               err |-> new_runtime("Undefined variable '{}' during assign.", name, <<>>)]

RECURSIVE Env_assign_clone(_, _, _, _)
\* Env::assign as it would be if the enclosing environment were a copy: an
\* assignment that reaches an enclosing environment is lost
Env_assign_clone(envs, e, name, value) ==
    IF name \in DOMAIN envs[e].bindings
    THEN [ok |-> TRUE, envs |-> [envs EXCEPT ![e].bindings[name] = value],
          err |-> NoError]
    ELSE IF envs[e].enclosing # 0
         THEN [Env_assign_clone(envs, envs[e].enclosing, name, value)
                 EXCEPT !.envs = envs]
         ELSE [ok |-> FALSE, envs |-> envs,
               err |-> new_runtime("Undefined variable '{}' during assign.", name, <<>>)]

RECURSIVE Env_assign(_, _, _, _)
\* Env::assign: overwrite in the nearest environment that has the name
Env_assign(envs, e, name, value) ==
    IF name \in DOMAIN envs[e].bindings
    THEN [ok |-> TRUE, envs |-> [envs EXCEPT ![e].bindings[name] = value],
          err |-> NoError]
    ELSE IF envs[e].enclosing # 0
         THEN Env_assign(envs, envs[e].enclosing, name, value)
         ELSE [ok |-> FALSE, envs |-> envs,
               err |-> new_runtime("Undefined variable '{}' during assign.", name, <<>>)]

\* EnvGuard::new: install new_env as current; the guard keeps the previous one
EnvGuard_new(st, new_env) == [st |-> [st EXCEPT !.env = new_env], previous |-> st.env]

\* Drop for EnvGuard as it would be without the restore
EnvGuard_drop_forget(st, previous) == st

\* Drop for EnvGuard: put the previous environment back
EnvGuard_drop(st, previous) == [st EXCEPT !.env = previous]


\* ------------------------------------------------------------------ history
RECURSIVE FoundAt(_, _, _, _)
\* where Env::get finds `name` from environment e: the environment and the
\* number of enclosing links followed (env 0: nowhere)
FoundAt(envs, e, name, hops) ==
    IF name \in DOMAIN envs[e].bindings THEN [env |-> e, hops |-> hops]
    ELSE IF envs[e].enclosing # 0
         THEN FoundAt(envs, envs[e].enclosing, name, hops + 1)
         ELSE [env |-> 0, hops |-> hops]

\* bindings.insert through Env::define, recorded in the history
define_logged(st, e, name, value, how) ==
    Log([st EXCEPT !.envs = Env_define(@, e, name, value)],
        [ev |-> "write", how |-> how, env |-> e, name |-> name, v |-> value,
         cur |-> st.env, site |-> 0, hops |-> 0,
         outer |-> IF st.envs[e].enclosing = 0 THEN 0
                   ELSE FoundAt(st.envs, st.envs[e].enclosing, name, 1).env,
         changed |-> {i \in 1..Len(st.envs) :
                        Env_define(st.envs, e, name, value)[i] # st.envs[i]}])

\* ------------------------------------------------------------------ Interpreter
RECURSIVE stmt_accept(_, _), expr_accept(_, _)

\* Interpreter::is_truthy
is_truthy(object) ==
    CASE object.t = "nil" -> FALSE
      [] object.t = "bool" -> object.b
      [] OTHER -> TRUE

RECURSIVE execute_block_loop(_, _, _, _)

\* one turn of the for loop of execute_block as it would be if the error of a
\* statement were dropped like its value
execute_block_next_resume(r, statements, i, signals) ==
    IF Aborted(r) THEN [r |-> r, signals |-> signals]
    ELSE execute_block_loop(r.st, statements, i + 1, Append(signals, r.flow))

\* one turn of the for loop of execute_block after `statement.accept(self)?;`:
\* the error is kept, the (value, flow) pair is dropped
execute_block_next(r, statements, i, signals) ==
    IF ~r.ok THEN [r |-> r, signals |-> signals]
    ELSE execute_block_loop(r.st, statements, i + 1, Append(signals, r.flow))

\* the for loop of execute_block; `signals` records the flows dropped
execute_block_loop(st, statements, i, signals) ==
    IF i > Len(statements) THEN [r |-> ok(st, Nil), signals |-> signals]
    ELSE execute_block_next(stmt_accept(statements[i], st), statements, i, signals)

\* the end of execute_block: the guard is dropped (unless the process was
\* aborted) and the result is Ok(()) or the error
execute_block_exit(st, new_env, g, l, dropped) ==
    IF Aborted(l.r) THEN l.r
    ELSE IF l.r.ok
    THEN ok(Log(dropped, [ev |-> "exit", kind |-> "block", scope |-> new_env,
                          before |-> st.env, after |-> dropped.env,
                          how |-> "normal", signals |-> l.signals]),
            Nil)
    ELSE Err(Log(dropped, [ev |-> "exit", kind |-> "block", scope |-> new_env,
                           before |-> st.env, after |-> dropped.env,
                           how |-> "error", signals |-> l.signals]),
             l.r.err)

\* execute_block with its guard g installed: the loop, then the drop
execute_block_guarded(st, new_env, g, l) ==
    execute_block_exit(st, new_env, g, l, EnvGuard_drop(l.r.st, g.previous))

\* execute_block after `EnvGuard::new(self, new_env)`
execute_block_body(st, statements, new_env, g) ==
    execute_block_guarded(st, new_env, g, execute_block_loop(g.st, statements, 1, <<>>))

\* Interpreter::execute_block: Result<()>
Interpreter_execute_block(st, statements, new_env) ==
    execute_block_body(st, statements, new_env, EnvGuard_new(st, new_env))

\* visit_block after `self.execute_block(..)?`: ok(Nil)
block_done(r) ==
    IF ~r.ok THEN r
    ELSE ok(Log(r.st, [ev |-> "blockflow", flow |-> FlowNone]), Nil)

\* visit_block with the new environment allocated
block_in(st, block, envs1) ==
    block_done(Interpreter_execute_block([st EXCEPT !.envs = envs1],
                                         block.statements, Len(envs1)))

\* Interpreter::visit_block
Interpreter_visit_block(st, block) ==
    block_in(st, block, Append(st.envs, new_enclosed(st.env)))

\* Interpreter::visit_var after `var.initializer.accept(self)?`: the define in
\* the current environment
visit_var_define(value, var) ==
    IF ~value.ok THEN value
    ELSE ok(define_logged(value.st, value.st.env, var.name, value.v, "var"), Nil)

\* Interpreter::visit_var
Interpreter_visit_var(st, var) ==
    visit_var_define(expr_accept(var.initializer, st), var)

\* Interpreter::visit_function
Interpreter_visit_function(st, function) ==
    LET lox_function == [native |-> FALSE, declaration |-> function, closure |-> st.env]
        funs1 == Append(st.funs, lox_function)
        function_obj == Fn(Len(funs1))
        st1 == Log([st EXCEPT !.funs = funs1],
                   [ev |-> "fundef", f |-> Len(funs1), env |-> st.env])
    IN ok(define_logged(st1, st1.env, function.name, function_obj, "fun"), Nil)

RECURSIVE while_loop(_, _, _)

\* one turn of the while loop after the body `while_stmt.body.accept(self)?;`:
\* the body's (value, flow) pair is dropped
while_body_done(body, while_stmt, n) ==
    IF ~body.ok THEN body
    ELSE while_loop(Log(body.st, [ev |-> "iteration", flow |-> body.flow]),
                    while_stmt, n + 1)

\* one turn of the while loop after the condition `condition.accept(self)?.0`
while_test(cond, while_stmt, n) ==
    IF ~cond.ok THEN cond
    ELSE IF ~is_truthy(cond.v) THEN ok(cond.st, Nil)
    ELSE IF n >= MaxIter THEN Err(cond.st, Abort("loop not followed further"))
    ELSE while_body_done(stmt_accept(while_stmt.body, cond.st), while_stmt, n)

\* the while loop of visit_while_stmt
while_loop(st, while_stmt, n) ==
    while_test(expr_accept(while_stmt.condition, st), while_stmt, n)

\* Interpreter::visit_while_stmt
Interpreter_visit_while_stmt(st, while_stmt) == while_loop(st, while_stmt, 0)

\* visit_if_stmt after a branch `branch.accept(self)?;`: the branch's
\* (value, flow) pair is dropped and the statement answers ok(Nil)
if_branch_done(branch) == IF ~branch.ok THEN branch ELSE ok(branch.st, Nil)

\* visit_if_stmt after the condition `if_stmt.condition.accept(self)?`
if_test(cond, if_stmt) ==
    IF ~cond.ok THEN cond
    ELSE IF is_truthy(cond.v)
         THEN if_branch_done(stmt_accept(if_stmt.then_branch, cond.st))
    ELSE IF if_stmt.else_branch # NoStmt
         THEN if_branch_done(stmt_accept(if_stmt.else_branch, cond.st))
    ELSE ok(cond.st, Nil)

\* Interpreter::visit_if_stmt
Interpreter_visit_if_stmt(st, if_stmt) ==
    if_test(expr_accept(if_stmt.condition, st), if_stmt)

\* visit_return_stmt after `return_stmt.value.accept(self)?`
return_signal(value) == IF ~value.ok THEN value ELSE return_value(value.st, value.v)

\* Interpreter::visit_return_stmt
Interpreter_visit_return_stmt(st, return_stmt) ==
    return_signal(expr_accept(return_stmt.value, st))

\* visit_expression after `expression.expression.accept(self)?`
expression_value(value) == IF ~value.ok THEN value ELSE ok(value.st, value.v)

\* Interpreter::visit_expression
Interpreter_visit_expression(st, expression) ==
    expression_value(expr_accept(expression.expression, st))

\* visit_print after `print.expression.accept(self)?`: println! is the append
\* to `out`
print_value(eval) ==
    IF ~eval.ok THEN eval
    ELSE ok([eval.st EXCEPT !.out = Append(@, eval.v)], eval.v)

\* Interpreter::visit_print
Interpreter_visit_print(st, print) == print_value(expr_accept(print.expression, st))

\* Stmt::accept
stmt_accept(s, st0) ==
    LET st == Log(st0, [ev |-> "stmt", k |-> s.k, env |-> st0.env])
    IN CASE s.k = "Expression" -> Interpreter_visit_expression(st, s)
         [] s.k = "Print" -> Interpreter_visit_print(st, s)
         [] s.k = "Var" -> Interpreter_visit_var(st, s)
         [] s.k = "Block" -> Interpreter_visit_block(st, s)
         [] s.k = "IfStmt" -> Interpreter_visit_if_stmt(st, s)
         [] s.k = "WhileStmt" -> Interpreter_visit_while_stmt(st, s)
         [] s.k = "Function" -> Interpreter_visit_function(st, s)
         [] s.k = "ReturnStmt" -> Interpreter_visit_return_stmt(st, s)

\* f64::to_string on the whole numbers the programs compute
Digit(d) == <<"0", "1", "2", "3", "4", "5", "6", "7", "8", "9">>[d + 1]
RECURSIVE Digits(_)
Digits(n) == IF n < 10 THEN Digit(n) ELSE Digits(n \div 10) \o Digit(n % 10)
to_string(n) == IF n < 0 THEN "-" \o Digits(0 - n) ELSE Digits(n)

\* Interpreter::visit_literal
Interpreter_visit_literal(st, literal) == ok(st, literal.value)

\* Interpreter::visit_grouping
Interpreter_visit_grouping(st, grouping) == expr_accept(grouping.expression, st)

\* Interpreter::visit_variable: always the dynamic lookup Env::get from the
\* current environment
Interpreter_visit_variable(st, variable) ==
    LET got == Env_get(st.envs, st.env, variable.name)
        at == FoundAt(st.envs, st.env, variable.name, 0)
    IN IF got.ok
       THEN ok(Log(st, [ev |-> "read", site |-> variable.id, name |-> variable.name,
                        cur |-> st.env, env |-> at.env, hops |-> at.hops,
                        v |-> got.v]),
               got.v)
       ELSE Err(Log(st, [ev |-> "miss", site |-> variable.id, name |-> variable.name,
                         cur |-> st.env]),
                new_runtime("Undefined variable '{}' during visit.",
                            variable.name, <<>>))

\* visit_assign after `assign.value.accept(self)?`: always the dynamic
\* Env::assign from the current environment
assign_value(value, assign) ==
       IF ~value.ok THEN value
       ELSE LET res == Env_assign(value.st.envs, value.st.env, assign.name, value.v)
                at == FoundAt(value.st.envs, value.st.env, assign.name, 0)
            IN IF ~res.ok THEN Err(value.st, res.err)
               ELSE ok(Log([value.st EXCEPT !.envs = res.envs],
                           [ev |-> "write", how |-> "assign", env |-> at.env,
                            name |-> assign.name, v |-> value.v,
                            cur |-> value.st.env, site |-> assign.id,
                            hops |-> at.hops, outer |-> 0,
                            changed |-> {i \in 1..Len(res.envs) :
                                           res.envs[i] # value.st.envs[i]}]),
                       value.v)

\* Interpreter::visit_assign
Interpreter_visit_assign(st, assign) ==
    assign_value(expr_accept(assign.value, st), assign)

\* the short-circuit test with the two operators exchanged
short_circuits_swapped(operator, left) ==
    IF operator = "AND" THEN is_truthy(left) ELSE ~is_truthy(left)

\* Interpreter::visit_logical, the test that ends the evaluation with the left
\* operand: `or` with a truthy left, `and` with a falsy left
short_circuits(operator, left) ==
    IF operator = "OR" THEN is_truthy(left) ELSE ~is_truthy(left)

\* the record of one evaluation of a logical expression in the history
logical_event(logical, left, r, ran) ==
    [ev |-> "logical", id |-> logical.id, op |-> logical.operator,
     left |-> left.v, from |-> Len(left.st.trace), right_ran |-> ran, v |-> r.v]

\* visit_logical, `ok(left.0)`
logical_left(logical, left, r) ==
    [r EXCEPT !.st = Log(r.st, logical_event(logical, left, r, FALSE))]

\* visit_logical, `logical.right.accept(self)`
logical_right(logical, left, right) ==
    IF ~right.ok THEN right
    ELSE [right EXCEPT !.st = Log(right.st, logical_event(logical, left, right, TRUE))]

\* visit_logical after `logical.left.accept(self)?`
logical_test(left, logical) ==
    IF ~left.ok THEN left
    ELSE IF short_circuits(logical.operator, left.v)
         THEN logical_left(logical, left, ok(left.st, left.v))
         ELSE logical_right(logical, left, expr_accept(logical.right, left.st))

\* Interpreter::visit_logical
Interpreter_visit_logical(st, logical) ==
    logical_test(expr_accept(logical.left, st), logical)

\* the match on the operator in visit_binary (MINUS, PLUS, STAR, the four
\* comparisons and the two equalities)
binary_op(st, operator, left, right) ==
    LET nums == left.t = "num" /\ right.t = "num"
        bad(what) == Err(st, new_runtime(what, operator, <<>>))
    IN CASE operator = "MINUS" ->
              IF nums THEN ok(st, Num(left.n - right.n))
              ELSE bad("Binary minus can only be applied to numbers")
         [] operator = "PLUS" ->
              IF nums THEN ok(st, Num(left.n + right.n))
              ELSE IF left.t = "str" /\ right.t = "str"
                   THEN ok(st, Str(left.s \o right.s))
              ELSE IF left.t = "str" /\ right.t = "num"
                   THEN ok(st, Str(left.s \o to_string(right.n)))
              ELSE IF left.t = "num" /\ right.t = "str"
                   THEN ok(st, Str(to_string(left.n) \o right.s))
              ELSE bad("Binary plus can only be applied to numbers or strings")
         [] operator = "STAR" ->
              IF nums THEN ok(st, Num(left.n * right.n))
              ELSE bad("Binary star can only be applied to numbers")
         [] operator = "GREATER" ->
              IF nums THEN ok(st, Bool(left.n > right.n))
              ELSE bad("Binary greater can only be applied to numbers")
         [] operator = "GREATER_EQUAL" ->
              IF nums THEN ok(st, Bool(left.n >= right.n))
              ELSE bad("Binary greater equal can only be applied to numbers")
         [] operator = "LESS" ->
              IF nums THEN ok(st, Bool(left.n < right.n))
              ELSE bad("Binary less can only be applied to numbers")
         [] operator = "LESS_EQUAL" ->
              IF nums THEN ok(st, Bool(left.n <= right.n))
              ELSE bad("Binary less equal can only be applied to numbers")
         [] operator = "EQUAL_EQUAL" -> ok(st, Bool(Object_eq(left, right)))
         [] operator = "BANG_EQUAL" -> ok(st, Bool(~Object_eq(left, right)))

\* visit_binary after `binary.right.accept(self)?`
binary_right(left, right, binary) ==
    IF ~right.ok THEN right
    ELSE binary_op(right.st, binary.operator, left.v, right.v)

\* visit_binary after `binary.left.accept(self)?`
binary_left(left, binary) ==
    IF ~left.ok THEN left
    ELSE binary_right(left, expr_accept(binary.right, left.st), binary)

\* Interpreter::visit_binary
Interpreter_visit_binary(st, binary) ==
    binary_left(expr_accept(binary.left, st), binary)

RECURSIVE bind_params(_, _, _, _, _)
\* LoxFunction::call, the loop that defines parameter i as args[i] in the new
\* environment
bind_params(st, env, parameters, args, i) ==
    IF i > Len(parameters) THEN st
    ELSE bind_params(define_logged(st, env, parameters[i], args[i], "param"),
                     env, parameters, args, i + 1)

RECURSIVE call_body_loop(_, _, _)

\* one turn of the body loop of LoxFunction::call after `stmt.accept(..)?`: an
\* error ends the call, a Return flow of the statement ends it with the value
call_body_next(r, statements, i) ==
    IF ~r.ok THEN [r |-> r, how |-> "error"]
    ELSE IF r.flow.f = "Return"
         THEN [r |-> ok(r.st, r.flow.v), how |-> "return"]
    ELSE call_body_loop(r.st, statements, i + 1)

\* LoxFunction::call, the loop over the statements of the body block
call_body_loop(st, statements, i) ==
    IF i > Len(statements) THEN [r |-> ok(st, Nil), how |-> "normal"]
    ELSE call_body_next(stmt_accept(statements[i], st), statements, i)

\* the environment of the invocation as it would be under dynamic scope: a
\* new one enclosing the caller's current environment
call_env_dynamic(st, self) == new_enclosed(st.env)

\* LoxFunction::call, the environment of the invocation: a new one enclosing
\* the closure of the function
call_env(st, self) == new_enclosed(self.closure)

\* the end of LoxFunction::call: the guard is dropped (unless the process
\* was aborted) and the result of the body loop is the result of the call
call_exit(st, env, l, dropped) ==
    IF Aborted(l.r) THEN l.r
    ELSE [l.r EXCEPT !.st = Log([dropped EXCEPT !.depth = @ - 1],
                                [ev |-> "exit", kind |-> "call", scope |-> env,
                                 before |-> st.env, after |-> dropped.env,
                                 how |-> l.how, signals |-> <<>>])]

\* LoxFunction::call with its guard g installed: the body loop's result l,
\* then the drop
call_guarded(st, env, g, l) ==
    call_exit(st, env, l, EnvGuard_drop(l.r.st, g.previous))

\* LoxFunction::call after `EnvGuard::new(interpreter, env)`
call_body(st, self, env, g) ==
    call_guarded(st, env, g, call_body_loop(g.st, self.declaration.body.statements, 1))

\* LoxFunction::call with the new environment allocated at index env: the
\* parameters are bound, then the guard installed
call_in(st, f, self, args, envs1, env) ==
    call_body(st, self, env,
      EnvGuard_new(
        bind_params(
          Log([st EXCEPT !.envs = envs1, !.depth = @ + 1],
              [ev |-> "enter", f |-> f, env |-> env, closure |-> self.closure,
               caller |-> st.env, enclosing |-> envs1[env].enclosing,
               depth |-> st.depth + 1]),
          env, self.declaration.parameters, args, 1),
        env))

\* LoxFunction::call (the body of a declared function is always a Block)
LoxFunction_call(st, f, args) ==
    IF st.depth >= MaxDepth THEN Err(st, Abort("stack overflow"))
    ELSE call_in(st, f, st.funs[f], args,
                 Append(st.envs, call_env(st, st.funs[f])), Len(st.envs) + 1)

\* ClockFunction::call: seconds since the epoch, whatever the host clock says
ClockFunction_call(st, f, args) == ok(st, Num(st.now))

\* LoxCallable::arity: ClockFunction 0, LoxFunction its parameter count
arity(st, f) ==
    IF st.funs[f].native THEN 0 ELSE Len(st.funs[f].declaration.parameters)

\* dyn LoxCallable::call
function_call(st, f, args) ==
    IF st.funs[f].native THEN ClockFunction_call(st, f, args)
    ELSE LoxFunction_call(st, f, args)

RECURSIVE eval_args(_, _, _, _)

\* one turn of the argument loop after `arg.accept(self)?`
eval_args_next(a, exprs, i, args) ==
    IF ~a.ok THEN [r |-> a, args |-> args]
    ELSE eval_args(a.st, exprs, i + 1, Append(args, a.v))

\* Interpreter::visit_call, the loop `args.push(arg.accept(self)?.0)`
eval_args(st, exprs, i, args) ==
    IF i > Len(exprs) THEN [r |-> ok(st, Nil), args |-> args]
    ELSE eval_args_next(expr_accept(exprs[i], st), exprs, i, args)

\* the arity test as it would be if only too few arguments were refused
arity_mismatch_few(st, f, args) == Len(args) < arity(st, f)

\* the arity test of visit_call
arity_mismatch(st, f, args) == Len(args) # arity(st, f)

\* visit_call, `ok(function.call(self, &args)?)`
call_result(r) == IF ~r.ok THEN r ELSE ok(r.st, r.v)

\* visit_call, the Object::Function arm: the arity test, then the call
call_function(st, function, args) ==
    IF arity_mismatch(st, function, args)
    THEN Err(st, new_runtime("Expected {} arguments but got {}.", "",
                             <<arity(st, function), Len(args)>>))
    ELSE call_result(function_call(st, function, args))

\* visit_call, the match on the callee
call_match(st, callee, args) ==
    IF callee.t = "fn"
    THEN call_function(Log(st, [ev |-> "invoke", f |-> callee.f,
                                n |-> arity(st, callee.f), m |-> Len(args)]),
                       callee.f, args)
    ELSE Err(st, new_runtime("Can only call functions.", "", <<>>))

\* visit_call after the argument loop
call_args(callee, a) ==
    IF ~a.r.ok THEN a.r ELSE call_match(a.r.st, callee.v, a.args)

\* visit_call as it would be if the callee were tested for being a function
\* before the arguments are evaluated
call_callee_checked(callee, call) ==
    IF ~callee.ok THEN callee
    ELSE IF callee.v.t # "fn"
    THEN Err(callee.st, new_runtime("Can only call functions.", "", <<>>))
    ELSE call_args(callee, eval_args(callee.st, call.args, 1, <<>>))

\* visit_call after `call.callee.accept(self)?.0`
call_callee(callee, call) ==
    IF ~callee.ok THEN callee
    ELSE call_args(callee, eval_args(callee.st, call.args, 1, <<>>))

\* Interpreter::visit_call
Interpreter_visit_call(st, call) ==
    call_callee(expr_accept(call.callee, st), call)

\* Expr::accept (the expression kinds the programs below are built from)
expr_accept(e, st) ==
    CASE e.k = "Literal" -> Interpreter_visit_literal(st, e)
      [] e.k = "Grouping" -> Interpreter_visit_grouping(st, e)
      [] e.k = "Variable" -> Interpreter_visit_variable(st, e)
      [] e.k = "Assign" -> Interpreter_visit_assign(st, e)
      [] e.k = "Logical" -> Interpreter_visit_logical(st, e)
      [] e.k = "Binary" -> Interpreter_visit_binary(st, e)
      [] e.k = "Call" -> Interpreter_visit_call(st, e)

\* Interpreter::new: the global environment with the native clock defined
Interpreter_new ==
    define_logged(
      [envs |-> <<new_global>>,
       funs |-> << [native |-> TRUE, declaration |-> NoStmt, closure |-> 0] >>,
       env |-> 1, out |-> <<>>, trace |-> <<>>, depth |-> 0, now |-> 0],
      1, "clock", Fn(1), "native")

\* ------------------------------------------------------------------ Resolver
\* Resolver::new; `locals` is the interpreter's table of resolved distances and
\* `trace` the history of what the resolver did (not part of the program)
Resolver_new ==
    [scopes |-> <<>>, errors |-> <<>>, current_function |-> "NONE",
     locals |-> [x \in {} |-> 0], trace |-> <<>>]

\* the history of the resolver gets one more event
Noted(rs, e) == [rs EXCEPT !.trace = Append(@, e)]

\* Interpreter::resolve(token, depth): keep the distance of this use site
Interpreter_resolve(rs, id, depth) == [rs EXCEPT !.locals = (id :> depth) @@ @]

RECURSIVE SetToSeq(_)
\* the order in which a HashMap hands out its keys (not specified by Rust;
\* no property below depends on it)
SetToSeq(S) ==
    IF S = {} THEN <<>>
    ELSE LET x == CHOOSE y \in S : TRUE IN <<x>> \o SetToSeq(S \ {x})

\* Resolver::begin_scope
begin_scope(rs) ==
    Noted([rs EXCEPT !.scopes = Append(@, [x \in {} |-> "DECL"])],
          [ev |-> "begin_scope", depth |-> Len(rs.scopes) + 1])

RECURSIVE end_scope_loop_declared(_, _, _, _)
\* the for loop of end_scope as it would be if only names still in state DECL
\* were reported
end_scope_loop_declared(rs, scope, names, i) ==
    IF i > Len(names) THEN rs
    ELSE IF scope[names[i]] = "DECL"
         THEN end_scope_loop_declared(
                [rs EXCEPT !.errors = Append(@,
                   new_warning("Variable '{}' is declared but never used", names[i]))],
                scope, names, i + 1)
         ELSE end_scope_loop_declared(rs, scope, names, i + 1)

RECURSIVE end_scope_loop(_, _, _, _)
\* the for loop of end_scope over the popped scope
end_scope_loop(rs, scope, names, i) ==
    IF i > Len(names) THEN rs
    ELSE LET name == names[i]
             kind == scope[name]
             next ==
               CASE kind = "DECL" ->
                      [rs EXCEPT !.errors = Append(@,
                         new_warning("Variable '{}' is declared but never used", name))]
                 [] kind = "DEF" ->
                      [rs EXCEPT !.errors = Append(@,
                         new_warning("Variable '{}' is defined but never used", name))]
                 [] kind = "USE" -> rs
         IN end_scope_loop(next, scope, names, i + 1)

\* the end of end_scope: the history keeps the popped scope and the places of
\* the diagnostics it gave rise to
end_scope_done(rs, scope, from) ==
    Noted(rs, [ev |-> "end_scope", scope |-> scope, from |-> from, to |-> Len(rs.errors),
               depth |-> Len(rs.scopes) + 1])

\* Resolver::end_scope
end_scope(rs) ==
    LET scope == rs.scopes[Len(rs.scopes)]
        popped == [rs EXCEPT !.scopes = SubSeq(@, 1, Len(@) - 1)]
    IN end_scope_done(end_scope_loop(popped, scope, SetToSeq(DOMAIN scope), 1),
                      scope, Len(rs.errors))

\* Resolver::declare as it would be if it looked for the name in every open
\* scope
declare_any_scope(rs, var) ==
    IF rs.scopes = <<>> THEN rs
    ELSE LET n == Len(rs.scopes)
             rs1 == IF \E i \in 1..n : var \in DOMAIN rs.scopes[i]
                    THEN [rs EXCEPT !.errors = Append(@,
                            new_internal("Already a variable with this name in this scope",
                                         var))]
                    ELSE rs
         IN [rs1 EXCEPT !.scopes[n] = (var :> "DECL") @@ @]

\* Resolver::declare
declare(rs, var) ==
    IF rs.scopes = <<>> THEN rs
    ELSE LET n == Len(rs.scopes)
             current == rs.scopes[n]
             rs1 == IF var \in DOMAIN current
                    THEN [rs EXCEPT !.errors = Append(@,
                            new_internal("Already a variable with this name in this scope",
                                         var))]
                    ELSE rs
         IN [rs1 EXCEPT !.scopes[n] = (var :> "DECL") @@ @]

\* Resolver::define
define(rs, var) ==
    IF rs.scopes = <<>> THEN rs
    ELSE LET n == Len(rs.scopes)
             scope == rs.scopes[n]
         IN IF var \in DOMAIN scope
            THEN IF scope[var] # "USE"
                 THEN [rs EXCEPT !.scopes[n] = (var :> "DEF") @@ @]
                 ELSE rs
            ELSE [rs EXCEPT !.scopes[n] = (var :> "DEF") @@ @]

RECURSIVE resolve_local_loop(_, _, _, _)
\* the loop of resolve_local, innermost scope first; i is the 1-based index of
\* the scope looked at (Rust's i is one less)
resolve_local_loop(rs, name, id, i) ==
    IF i < 1 THEN rs
    ELSE IF name \in DOMAIN rs.scopes[i]
         THEN Interpreter_resolve(rs, id, Len(rs.scopes) - (i - 1) - 1)
         ELSE resolve_local_loop(rs, name, id, i - 1)

\* Resolver::resolve_local
resolve_local(rs, name, id) == resolve_local_loop(rs, name, id, Len(rs.scopes))

RECURSIVE mark_used_all(_, _, _)
\* the loop of Resolver::visit_variable as it would be without its `break`
mark_used_all(rs, name, i) ==
    IF i < 1 THEN rs
    ELSE IF name \in DOMAIN rs.scopes[i] /\ rs.scopes[i][name] = "DEF"
         THEN mark_used_all([rs EXCEPT !.scopes[i] = (name :> "USE") @@ @], name, i - 1)
         ELSE mark_used_all(rs, name, i - 1)

RECURSIVE mark_used_loop(_, _, _)
\* Resolver::visit_variable, the loop that marks the nearest binding USE
mark_used_loop(rs, name, i) ==
    IF i < 1 THEN rs
    ELSE IF name \in DOMAIN rs.scopes[i]
         THEN IF rs.scopes[i][name] = "DEF"
              THEN [rs EXCEPT !.scopes[i] = (name :> "USE") @@ @]
              ELSE rs
         ELSE mark_used_loop(rs, name, i - 1)

\* Resolver::error
Resolver_error(rs, token, err_msg) ==
    [rs EXCEPT !.errors = Append(@, new_parse(err_msg, token))]

\* the self-reference test of Resolver::visit_variable: DECL in the last scope
read_in_own_initializer(rs, name) ==
    LET last == rs.scopes[Len(rs.scopes)]
    IN name \in DOMAIN last /\ last[name] = "DECL"

\* the history keeps the scopes before and after the read was marked
variable_marked(rs, name, before) ==
    Noted(rs, [ev |-> "read", name |-> name, before |-> before, after |-> rs.scopes])

\* Resolver::visit_variable
Resolver_visit_variable(rs, variable) ==
    LET rs1 == IF rs.scopes # <<>>
               THEN LET checked ==
                          IF read_in_own_initializer(rs, variable.name)
                          THEN Resolver_error(rs, variable.name,
                                 "Can't read local variable in its own initializer.")
                          ELSE rs
                    IN variable_marked(
                         mark_used_loop(checked, variable.name, Len(checked.scopes)),
                         variable.name, rs.scopes)
               ELSE rs
    IN resolve_local(rs1, variable.name, variable.id)

RECURSIVE resolve_statement(_, _), resolve_expression(_, _)

RECURSIVE resolve_statements_loop(_, _, _)
resolve_statements_loop(rs, statements, i) ==
    IF i > Len(statements) THEN rs
    ELSE resolve_statements_loop(resolve_statement(statements[i], rs), statements, i + 1)

\* Resolver::resolve_statements
resolve_statements(rs, statements) == resolve_statements_loop(rs, statements, 1)

\* Resolver::visit_block
Resolver_visit_block_open(rs, block) ==
    resolve_statements(begin_scope(rs), block.statements)

Resolver_visit_block(rs, block) ==
    end_scope(resolve_statements(begin_scope(rs), block.statements))

\* Resolver::visit_var as it would be without the temporary scope at global
\* level
Resolver_visit_var_unscoped(rs, var) ==
    define(resolve_expression(var.initializer, declare(rs, var.name)), var.name)

\* Resolver::visit_var: at global level the declaration is wrapped in a
\* temporary scope
Resolver_visit_var(rs, var) ==
    LET was_global == rs.scopes = <<>>
        rs1 == IF was_global THEN begin_scope(rs) ELSE rs
        rs2 == declare(rs1, var.name)
        rs3 == resolve_expression(var.initializer, rs2)
        rs4 == define(rs3, var.name)
    IN IF was_global THEN end_scope(rs4) ELSE rs4

RECURSIVE declare_params(_, _, _)
\* Resolver::resolve_function, the loop declaring and defining the parameters
declare_params(rs, parameters, i) ==
    IF i > Len(parameters) THEN rs
    ELSE declare_params(define(declare(rs, parameters[i]), parameters[i]),
                        parameters, i + 1)

\* Resolver::resolve_function as it would be without the restoring of
\* current_function
resolve_function_block(rs, func) ==
    LET enclosing_function == rs.current_function
        rs1 == begin_scope([rs EXCEPT !.current_function = "FUNCTION"])
        rs2 == declare_params(rs1, func.parameters, 1)
        rs3 == end_scope(resolve_statements(begin_scope(rs2), func.body.statements))
        rs4 == end_scope(rs3)
    IN [rs4 EXCEPT !.current_function = enclosing_function]

resolve_function_forget(rs, func) ==
    end_scope(resolve_statements(
      declare_params(begin_scope([rs EXCEPT !.current_function = "FUNCTION"]),
                     func.parameters, 1),
      func.body.statements))

\* Resolver::resolve_function (the body is always a Block: its statements are
\* resolved in the scope of the parameters)
resolve_function(rs, func) ==
    LET enclosing_function == rs.current_function
        rs1 == begin_scope([rs EXCEPT !.current_function = "FUNCTION"])
        rs2 == declare_params(rs1, func.parameters, 1)
        rs3 == resolve_statements(rs2, func.body.statements)
        rs4 == end_scope(rs3)
    IN [rs4 EXCEPT !.current_function = enclosing_function]

\* Resolver::visit_function
Resolver_visit_function(rs, function) ==
    LET was_global == rs.scopes = <<>>
        rs1 == IF was_global THEN rs
               ELSE define(declare(rs, function.name), function.name)
    IN resolve_function(rs1, function)

\* Resolver::visit_expression
Resolver_visit_expression(rs, expression) ==
    resolve_expression(expression.expression, rs)

\* Resolver::visit_if_stmt
Resolver_visit_if_stmt(rs, if_stmt) ==
    LET rs1 == resolve_expression(if_stmt.condition, rs)
        rs2 == resolve_statement(if_stmt.then_branch, rs1)
    IN IF if_stmt.else_branch # NoStmt
       THEN resolve_statement(if_stmt.else_branch, rs2)
       ELSE rs2

\* Resolver::visit_print
Resolver_visit_print(rs, print) == resolve_expression(print.expression, rs)

\* Resolver::visit_return_stmt
Resolver_visit_return_stmt(rs, return_stmt) ==
    LET rs1 == IF rs.current_function = "NONE"
               THEN Resolver_error(rs, "return", "Cannot return from top level code.")
               ELSE rs
    IN resolve_expression(return_stmt.value, rs1)

\* Resolver::visit_while_stmt
Resolver_visit_while_stmt(rs, while_stmt) ==
    resolve_statement(while_stmt.body, resolve_expression(while_stmt.condition, rs))

RECURSIVE resolve_args(_, _, _)
resolve_args(rs, args, i) ==
    IF i > Len(args) THEN rs
    ELSE resolve_args(resolve_expression(args[i], rs), args, i + 1)

\* Resolver::visit_call
Resolver_visit_call(rs, call) ==
    resolve_args(resolve_expression(call.callee, rs), call.args, 1)

\* Resolver::visit_binary and Resolver::visit_logical
Resolver_visit_binary(rs, binary) ==
    resolve_expression(binary.right, resolve_expression(binary.left, rs))

\* the history keeps the scopes before and after the target was resolved
assign_target(rs, name, before) ==
    Noted(rs, [ev |-> "assign", name |-> name, before |-> before, after |-> rs.scopes])

\* the target of an assignment resolved as if writing a variable were a use
assign_local_used(rs, assign) ==
    assign_target(
      resolve_local(mark_used_loop(rs, assign.name, Len(rs.scopes)), assign.name, assign.id),
      assign.name, rs.scopes)

\* Resolver::visit_assign after the value: resolve_local of the target (the
\* target's state is not changed)
assign_local(rs, assign) ==
    assign_target(resolve_local(rs, assign.name, assign.id), assign.name, rs.scopes)

\* Resolver::visit_assign: the value, then the target
Resolver_visit_assign(rs, assign) ==
    assign_local(resolve_expression(assign.value, rs), assign)

\* Resolver::visit_grouping
Resolver_visit_grouping(rs, grouping) == resolve_expression(grouping.expression, rs)

\* Stmt::accept with the resolver as visitor
resolve_statement(s, rs) ==
    CASE s.k = "Expression" -> Resolver_visit_expression(rs, s)
      [] s.k = "Print" -> Resolver_visit_print(rs, s)
      [] s.k = "Var" -> Resolver_visit_var(rs, s)
      [] s.k = "Block" -> Resolver_visit_block(rs, s)
      [] s.k = "IfStmt" -> Resolver_visit_if_stmt(rs, s)
      [] s.k = "WhileStmt" -> Resolver_visit_while_stmt(rs, s)
      [] s.k = "Function" -> Resolver_visit_function(rs, s)
      [] s.k = "ReturnStmt" -> Resolver_visit_return_stmt(rs, s)

\* Expr::accept with the resolver as visitor
resolve_expression(e, rs) ==
    CASE e.k = "Literal" -> rs
      [] e.k = "Grouping" -> Resolver_visit_grouping(rs, e)
      [] e.k = "Variable" -> Resolver_visit_variable(rs, e)
      [] e.k = "Assign" -> Resolver_visit_assign(rs, e)
      [] e.k = "Logical" -> Resolver_visit_binary(rs, e)
      [] e.k = "Binary" -> Resolver_visit_binary(rs, e)
      [] e.k = "Call" -> Resolver_visit_call(rs, e)

\* ------------------------------------------------------------------ programs
\* The statement lists handed to the resolver and the evaluator (the parser's
\* output).  Every Variable, Assign and Logical node carries the identity of
\* its token as `id`.
Prog(name, n, m, statements) ==
    [name |-> name, n |-> n, m |-> m, statements |-> statements]

\* fun f(x) { { var y = x; { print y + nope; } } }  { var a = 1; f(a); }  print "end";
EnvRestoreProg ==
    Prog("env_restore", 0, 0,
      << SFun("f", <<"x">>,
              << SBlock(<< SVar("y", Var("x", 1)),
                           SBlock(<< SPrint(Bin(Var("y", 2), "PLUS", Var("nope", 3))) >>) >>) >>),
         SBlock(<< SVar("a", Lit(Num(1))), SExpr(Call(Var("f", 4), << Var("a", 5) >>)) >>),
         SPrint(Lit(Str("end"))) >>)

\* fun f() { { return 1; print 2; } print 3; }  print f();
BlockReturnProg ==
    Prog("block_return", 0, 0,
      << SFun("f", <<>>,
              << SBlock(<< SReturn(Lit(Num(1))), SPrint(Lit(Num(2))) >>),
                 SPrint(Lit(Num(3))) >>),
         SPrint(Call(Var("f", 1), <<>>)) >>)

\* fun f() { { { return 1; } } return 2; }  print f();
NestedReturnProg ==
    Prog("nested_return", 0, 0,
      << SFun("f", <<>>,
              << SBlock(<< SBlock(<< SReturn(Lit(Num(1))) >>) >>),
                 SReturn(Lit(Num(2))) >>),
         SPrint(Call(Var("f", 1), <<>>)) >>)

\* fun fact(n) { if (n <= 1) return 1; return n * fact(n - 1); }  print fact(N);
FactProg(N) ==
    Prog("fact", N, 0,
      << SFun("fact", <<"n">>,
              << SIf(Bin(Var("n", 1), "LESS_EQUAL", Lit(Num(1))),
                     SReturn(Lit(Num(1))), NoStmt),
                 SReturn(Bin(Var("n", 2), "STAR",
                             Call(Var("fact", 3),
                                  << Bin(Var("n", 4), "MINUS", Lit(Num(1))) >>))) >>),
         SPrint(Call(Var("fact", 5), << Lit(Num(N)) >>)) >>)

\* { var a = 1; { fun f() { print a; } f(); var a = 2; f(); } }
ResolvedReadProg ==
    Prog("resolved_read", 0, 0,
      << SBlock(<< SVar("a", Lit(Num(1))),
                   SBlock(<< SFun("f", <<>>, << SPrint(Var("a", 1)) >>),
                             SExpr(Call(Var("f", 2), <<>>)),
                             SVar("a", Lit(Num(2))),
                             SExpr(Call(Var("f", 3), <<>>)) >>) >>) >>)

\* { var a = 1; { fun g() { a = 5; } var a = 2; g(); print a; } print a; }
ResolvedAssignProg ==
    Prog("resolved_assign", 0, 0,
      << SBlock(<< SVar("a", Lit(Num(1))),
                   SBlock(<< SFun("g", <<>>, << SExpr(Assign("a", Lit(Num(5)), 1)) >>),
                             SVar("a", Lit(Num(2))),
                             SExpr(Call(Var("g", 2), <<>>)),
                             SPrint(Var("a", 3)) >>),
                   SPrint(Var("a", 4)) >>) >>)

\* fun g() { print x; }  { var x = 1; g(); }
CallerLocalProg ==
    Prog("caller_local", 0, 0,
      << SFun("g", <<>>, << SPrint(Var("x", 1)) >>),
         SBlock(<< SVar("x", Lit(Num(1))), SExpr(Call(Var("g", 2), <<>>)) >>) >>)

\* var x = 0; fun g() { print x; } fun h() { var x = 1; g(); print x; } h();
LexicalProg ==
    Prog("lexical", 0, 0,
      << SVar("x", Lit(Num(0))),
         SFun("g", <<>>, << SPrint(Var("x", 1)) >>),
         SFun("h", <<>>, << SVar("x", Lit(Num(1))),
                            SExpr(Call(Var("g", 2), <<>>)),
                            SPrint(Var("x", 3)) >>),
         SExpr(Call(Var("h", 4), <<>>)) >>)

\* fun r(n) { var mine = n; if (n > 0) { r(n - 1); } print mine; }  r(2);
InvocationsProg ==
    Prog("invocations", 0, 0,
      << SFun("r", <<"n">>,
              << SVar("mine", Var("n", 1)),
                 SIf(Bin(Var("n", 2), "GREATER", Lit(Num(0))),
                     SBlock(<< SExpr(Call(Var("r", 3),
                                          << Bin(Var("n", 4), "MINUS", Lit(Num(1))) >>)) >>),
                     NoStmt),
                 SPrint(Var("mine", 5)) >>),
         SExpr(Call(Var("r", 6), << Lit(Num(2)) >>)) >>)

\* fun makeCounter() { var c = 0; fun inc() { c = c + 1; return c; } return inc; }
\* var k = makeCounter();  print k();  print k();
CounterProg ==
    Prog("counter", 0, 0,
      << SFun("makeCounter", <<>>,
              << SVar("c", Lit(Num(0))),
                 SFun("inc", <<>>,
                      << SExpr(Assign("c", Bin(Var("c", 1), "PLUS", Lit(Num(1))), 2)),
                         SReturn(Var("c", 3)) >>),
                 SReturn(Var("inc", 4)) >>),
         SVar("k", Call(Var("makeCounter", 5), <<>>)),
         SPrint(Call(Var("k", 6), <<>>)),
         SPrint(Call(Var("k", 7), <<>>)) >>)

\* var g; var i;
\* { var c = 0; fun inc() { c = c + 1; } fun get() { return c; } g = get; i = inc; }
\* i(); print g(); i(); print g();
SharedProg ==
    Prog("shared", 0, 0,
      << SVar("g", Lit(Nil)),
         SVar("i", Lit(Nil)),
         SBlock(<< SVar("c", Lit(Num(0))),
                   SFun("inc", <<>>,
                        << SExpr(Assign("c", Bin(Var("c", 1), "PLUS", Lit(Num(1))), 2)) >>),
                   SFun("get", <<>>, << SReturn(Var("c", 3)) >>),
                   SExpr(Assign("g", Var("get", 4), 5)),
                   SExpr(Assign("i", Var("inc", 6), 7)) >>),
         SExpr(Call(Var("i", 8), <<>>)),
         SPrint(Call(Var("g", 9), <<>>)),
         SExpr(Call(Var("i", 10), <<>>)),
         SPrint(Call(Var("g", 11), <<>>)) >>)

\* var a = "global"; { fun showA() { print a; } showA(); var a = "block"; showA(); }
LateVarProg ==
    Prog("late_var", 0, 0,
      << SVar("a", Lit(Str("global"))),
         SBlock(<< SFun("showA", <<>>, << SPrint(Var("a", 1)) >>),
                   SExpr(Call(Var("showA", 2), <<>>)),
                   SVar("a", Lit(Str("block"))),
                   SExpr(Call(Var("showA", 3), <<>>)) >>) >>)

\* var x = 10; { var x = 20; print x; } print x;
ShadowProg ==
    Prog("shadow", 0, 0,
      << SVar("x", Lit(Num(10))),
         SBlock(<< SVar("x", Lit(Num(20))), SPrint(Var("x", 1)) >>),
         SPrint(Var("x", 2)) >>)

\* fun t(<n parameters>) { print "body"; }  t(<m arguments>);  print "after";
ArityProg(n, m) ==
    Prog("arity", n, m,
      << SFun("t", SubSeq(<<"a", "b", "c", "d">>, 1, n), << SPrint(Lit(Str("body"))) >>),
         SExpr(Call(Var("t", 1), [i \in 1..m |-> Lit(Num(i))])),
         SPrint(Lit(Str("after"))) >>)

\* print clock(<m arguments>);
ClockProg(m) ==
    Prog("clock", 0, m,
      << SPrint(Call(Var("clock", 1), [i \in 1..m |-> Lit(Num(i))])) >>)

\* fun countdown(n) { while (n > 0) { print n; n = n - 1; } print "Done!"; }
\* countdown(2);
CountdownProg ==
    Prog("countdown", 2, 0,
      << SFun("countdown", <<"n">>,
              << SWhile(Bin(Var("n", 1), "GREATER", Lit(Num(0))),
                        SBlock(<< SPrint(Var("n", 2)),
                                  SExpr(Assign("n", Bin(Var("n", 3), "MINUS", Lit(Num(1))), 4)) >>)),
                 SPrint(Lit(Str("Done!"))) >>),
         SExpr(Call(Var("countdown", 5), << Lit(Num(2)) >>)) >>)

\* var notAFunction = "hello"; notAFunction();
NotCallableProg ==
    Prog("not_callable", 0, 0,
      << SVar("notAFunction", Lit(Str("hello"))),
         SExpr(Call(Var("notAFunction", 1), <<>>)) >>)

Lefts == << Nil, Bool(FALSE), Bool(TRUE), Num(0), Str(""), Num(3) >>
Operators == << "AND", "OR" >>

\* fun side() { print "side"; return 7; }  print <Lefts[n]> <Operators[m]> side();
LogicProg(n, m) ==
    Prog("logic", n, m,
      << SFun("side", <<>>, << SPrint(Lit(Str("side"))), SReturn(Lit(Num(7))) >>),
         SPrint(Logical(Lit(Lefts[n]), Operators[m], Call(Var("side", 1), <<>>), 2)) >>)

\* fun side() {..}  print (<Lefts[n]> or false) and side();  print nil or "x";
LogicChainProg(n) ==
    Prog("logic_chain", n, 0,
      << SFun("side", <<>>, << SPrint(Lit(Str("side"))), SReturn(Lit(Nil)) >>),
         SPrint(Logical(Grouping(Logical(Lit(Lefts[n]), "OR", Lit(Bool(FALSE)), 1)),
                        "AND", Call(Var("side", 2), <<>>), 3)),
         SPrint(Logical(Lit(Nil), "OR", Lit(Str("x")), 4)) >>)

RECURSIVE Wrap(_, _)
\* the statements inside `level` nested blocks
Wrap(level, statements) ==
    IF level = 0 THEN statements ELSE << SBlock(Wrap(level - 1, statements)) >>

ScopeKinds == << "self", "outer", "same", "fun_self", "shadow_self", "param_self",
                 "nested_expr", "fun_outer",
                 "dup", "dup_param", "dup_fun", "shadowed",
                 "return_top", "return_fun", "return_after_fun", "return_nested",
                 "unused", "assigned_only", "shadow_unused", "inner_read",
                 "after_block", "error_mid", "error_deep", "levels", "sibling",
                 "self_rec", "while_return" >>

\* declarations at nesting level n:
\*   self         var a = a;
\*   outer        var a = 1; { var b = a; print b; }
\*   same         var a = 1; var b = a; print b;
\*   fun_self     fun f() { var a = a; }
\*   shadow_self  var a = 1; { var a = a; }
\*   param_self   fun f(a) { var a = a; }
\*   nested_expr  var a = (1 + a);
\*   fun_outer    var a = 1; fun f(p) { var b = a + p; print b; } f(a);
\*   dup          var a = 1; var a = 2; print a;
\*   dup_param    fun f(a, a) { print a; }
\*   dup_fun      var f = 1; fun f() { print 1; } print f;
\*   shadowed     var a = 1; { var a = 2; print a; } print a;
\*   return_top   return 1;
\*   return_fun   fun f() { return 1; } print f();
\*   return_after_fun  fun f() { return 1; } print f(); return 2;
\*   return_nested     fun f() { fun g() { return 1; } return g(); } print f();
\*   unused       var a = 1; var b = 2; print a;
\*   assigned_only     var x = 1; x = 2;
\*   shadow_unused     var a = 1; { var a = 2; } print a;
\*   inner_read   var a = 1; { var a = 2; print a; }
\*   after_block  { var a = 1; print a; } print a;
\*   error_mid    var a = 1; { a = 2; print a; print nope; print 3; } print 4;
\*   error_deep   var i = 0; fun f() { i = i + 1; print nope; print 1; }
\*                while (i < 3) { f(); print 2; } print 3;
\*   levels       fun f(p) { var q = p; { var r = q; { print p + q + r; } } } f(1);
\*   sibling      fun f() { return g(); } fun g() { return 1; } print f();
\*   self_rec     fun r(n) { if (n > 0) { r(n - 1); } print n; } r(1);
\*   while_return fun f() { while (true) { return 1; } } print f();
ScopeProg(n, m) ==
    LET kind == ScopeKinds[m]
        body ==
          CASE kind = "self" -> << SVar("a", Var("a", 1)) >>
            [] kind = "outer" ->
                 << SVar("a", Lit(Num(1))),
                    SBlock(<< SVar("b", Var("a", 1)), SPrint(Var("b", 2)) >>) >>
            [] kind = "same" ->
                 << SVar("a", Lit(Num(1))), SVar("b", Var("a", 1)), SPrint(Var("b", 2)) >>
            [] kind = "fun_self" -> << SFun("f", <<>>, << SVar("a", Var("a", 1)) >>) >>
            [] kind = "shadow_self" ->
                 << SVar("a", Lit(Num(1))), SBlock(<< SVar("a", Var("a", 1)) >>) >>
            [] kind = "param_self" ->
                 << SFun("f", <<"a">>, << SVar("a", Var("a", 1)) >>) >>
            [] kind = "nested_expr" ->
                 << SVar("a", Grouping(Bin(Lit(Num(1)), "PLUS", Var("a", 1)))) >>
            [] kind = "fun_outer" ->
                 << SVar("a", Lit(Num(1))),
                    SFun("f", <<"p">>,
                         << SVar("b", Bin(Var("a", 1), "PLUS", Var("p", 2))),
                            SPrint(Var("b", 3)) >>),
                    SExpr(Call(Var("f", 4), << Var("a", 5) >>)) >>
            [] kind = "dup" ->
                 << SVar("a", Lit(Num(1))), SVar("a", Lit(Num(2))), SPrint(Var("a", 1)) >>
            [] kind = "dup_param" ->
                 << SFun("f", <<"a", "a">>, << SPrint(Var("a", 1)) >>) >>
            [] kind = "dup_fun" ->
                 << SVar("f", Lit(Num(1))),
                    SFun("f", <<>>, << SPrint(Lit(Num(1))) >>),
                    SPrint(Var("f", 1)) >>
            [] kind = "shadowed" ->
                 << SVar("a", Lit(Num(1))),
                    SBlock(<< SVar("a", Lit(Num(2))), SPrint(Var("a", 1)) >>),
                    SPrint(Var("a", 2)) >>
            [] kind = "return_top" -> << SReturn(Lit(Num(1))) >>
            [] kind = "return_fun" ->
                 << SFun("f", <<>>, << SReturn(Lit(Num(1))) >>),
                    SPrint(Call(Var("f", 1), <<>>)) >>
            [] kind = "return_after_fun" ->
                 << SFun("f", <<>>, << SReturn(Lit(Num(1))) >>),
                    SPrint(Call(Var("f", 1), <<>>)),
                    SReturn(Lit(Num(2))) >>
            [] kind = "return_nested" ->
                 << SFun("f", <<>>,
                         << SFun("g", <<>>, << SReturn(Lit(Num(1))) >>),
                            SReturn(Call(Var("g", 1), <<>>)) >>),
                    SPrint(Call(Var("f", 2), <<>>)) >>
            [] kind = "unused" ->
                 << SVar("a", Lit(Num(1))), SVar("b", Lit(Num(2))), SPrint(Var("a", 1)) >>
            [] kind = "assigned_only" ->
                 << SVar("x", Lit(Num(1))), SExpr(Assign("x", Lit(Num(2)), 1)) >>
            [] kind = "shadow_unused" ->
                 << SVar("a", Lit(Num(1))),
                    SBlock(<< SVar("a", Lit(Num(2))) >>),
                    SPrint(Var("a", 1)) >>
            [] kind = "inner_read" ->
                 << SVar("a", Lit(Num(1))),
                    SBlock(<< SVar("a", Lit(Num(2))), SPrint(Var("a", 1)) >>) >>
            [] kind = "after_block" ->
                 << SBlock(<< SVar("a", Lit(Num(1))), SPrint(Var("a", 1)) >>),
                    SPrint(Var("a", 2)) >>
            [] kind = "error_mid" ->
                 << SVar("a", Lit(Num(1))),
                    SBlock(<< SExpr(Assign("a", Lit(Num(2)), 1)),
                              SPrint(Var("a", 2)),
                              SPrint(Var("nope", 3)),
                              SPrint(Lit(Num(3))) >>),
                    SPrint(Lit(Num(4))) >>
            [] kind = "error_deep" ->
                 << SVar("i", Lit(Num(0))),
                    SFun("f", <<>>,
                         << SExpr(Assign("i", Bin(Var("i", 1), "PLUS", Lit(Num(1))), 2)),
                            SPrint(Var("nope", 3)),
                            SPrint(Lit(Num(1))) >>),
                    SWhile(Bin(Var("i", 4), "LESS", Lit(Num(3))),
                           SBlock(<< SExpr(Call(Var("f", 5), <<>>)),
                                     SPrint(Lit(Num(2))) >>)),
                    SPrint(Lit(Num(3))) >>
            [] kind = "levels" ->
                 << SFun("f", <<"p">>,
                         << SVar("q", Var("p", 1)),
                            SBlock(<< SVar("r", Var("q", 2)),
                                      SBlock(<< SPrint(Bin(Bin(Var("p", 3), "PLUS",
                                                               Var("q", 4)),
                                                           "PLUS", Var("r", 5))) >>) >>) >>),
                    SExpr(Call(Var("f", 6), << Lit(Num(1)) >>)) >>
            [] kind = "sibling" ->
                 << SFun("f", <<>>, << SReturn(Call(Var("g", 1), <<>>)) >>),
                    SFun("g", <<>>, << SReturn(Lit(Num(1))) >>),
                    SPrint(Call(Var("f", 2), <<>>)) >>
            [] kind = "self_rec" ->
                 << SFun("r", <<"n">>,
                         << SIf(Bin(Var("n", 1), "GREATER", Lit(Num(0))),
                                SBlock(<< SExpr(Call(Var("r", 2),
                                                     << Bin(Var("n", 3), "MINUS",
                                                            Lit(Num(1))) >>)) >>),
                                NoStmt),
                            SPrint(Var("n", 4)) >>),
                    SExpr(Call(Var("r", 5), << Lit(Num(1)) >>)) >>
            [] kind = "while_return" ->
                 << SFun("f", <<>>,
                         << SWhile(Lit(Bool(TRUE)), SBlock(<< SReturn(Lit(Num(1))) >>)) >>),
                    SPrint(Call(Var("f", 1), <<>>)) >>
    IN Prog(kind, n, m, Wrap(n, body))

CallKinds == << "nonfn", "arity", "argerr", "nocallee" >>

\* calls whose arguments have effects:
\*   nonfn     var n = 1; var a = 0; var b = 0; n(a = 1, b = 2);
\*   arity     fun f(p) { print p; } var a = 0; var b = 0; f(a = 1, b = 2);
\*   argerr    fun f(p, q, r) { print p; } var a = 0; var b = 0; f(a = 1, nope, b = 2);
\*   nocallee  var a = 0; nope(a = 1);
CallProg(m) ==
    LET kind == CallKinds[m]
        args == << Assign("a", Lit(Num(1)), 1), Assign("b", Lit(Num(2)), 2) >>
        vars_ab == << SVar("a", Lit(Num(0))), SVar("b", Lit(Num(0))) >>
    IN Prog("call_" \o kind, 0, m,
         CASE kind = "nonfn" ->
                << SVar("n", Lit(Num(1))) >> \o vars_ab
                \o << SExpr(Call(Var("n", 3), args)) >>
           [] kind = "arity" ->
                << SFun("f", <<"p">>, << SPrint(Var("p", 4)) >>) >> \o vars_ab
                \o << SExpr(Call(Var("f", 3), args)) >>
           [] kind = "argerr" ->
                << SFun("f", <<"p", "q", "r">>, << SPrint(Var("p", 4)) >>) >> \o vars_ab
                \o << SExpr(Call(Var("f", 3),
                                 << args[1], Var("nope", 5), args[2] >>)) >>
           [] kind = "nocallee" ->
                << SVar("a", Lit(Num(0))),
                   SExpr(Call(Var("nope", 3), << args[1] >>)) >>)

RECURSIVE Flatten(_)
Flatten(ss) == IF ss = <<>> THEN <<>> ELSE Head(ss) \o Flatten(Tail(ss))

Programs ==
    << EnvRestoreProg, BlockReturnProg, NestedReturnProg, ResolvedReadProg,
       ResolvedAssignProg, CallerLocalProg, LexicalProg, InvocationsProg,
       CounterProg, SharedProg, LateVarProg, ShadowProg, NotCallableProg,
       CountdownProg >>
    \o [N \in 1..MaxFact |-> FactProg(N)]
    \o Flatten([n \in 1..(MaxParams + 1) |-> [m \in 1..(MaxArgs + 1) |-> ArityProg(n - 1, m - 1)]])
    \o [m \in 1..2 |-> ClockProg(m - 1)]
    \o Flatten([n \in 1..Len(Lefts) |-> [m \in 1..Len(Operators) |-> LogicProg(n, m)]])
    \o [n \in 1..Len(Lefts) |-> LogicChainProg(n)]
    \o Flatten([n \in 1..(MaxNest + 1) |-> [m \in 1..Len(ScopeKinds) |-> ScopeProg(n - 1, m)]])
    \o [m \in 1..Len(CallKinds) |-> CallProg(m)]

\* ------------------------------------------------------------------ the driver
\* `execute` of the test suites: Resolver::resolve_statements over the whole
\* program, a check for error-class diagnostics, then Interpreter::interpret.
VARIABLES source, phase, pc, resolver, interpreter, result, call
vars == <<source, phase, pc, resolver, interpreter, result, call>>

\* `call` is the call of a method of Env made on its own, outside a program
NoCall == [method |-> "none"]

statements == Programs[source].statements

Init ==
    /\ source \in 1..Len(Programs)
    /\ phase = "resolve"
    /\ pc = 1
    /\ resolver = Resolver_new
    /\ interpreter = Interpreter_new
    /\ result = NoError
    /\ call = NoCall

\* one turn of the loop of Resolver::resolve_statements
ResolveStatement ==
    /\ phase = "resolve"
    /\ pc <= Len(statements)
    /\ resolver' = resolve_statement(statements[pc], resolver)
    /\ pc' = pc + 1
    /\ UNCHANGED <<source, phase, interpreter, result, call>>

\* an error-class diagnostic: any kind but Warning
has_real_errors(errors) == \E i \in 1..Len(errors) : errors[i].kind # "Warning"
first_real_error(errors) ==
    errors[CHOOSE i \in 1..Len(errors) :
             /\ errors[i].kind # "Warning"
             /\ \A j \in 1..(i - 1) : errors[j].kind = "Warning"]

\* `execute` after resolution: return the first error-class diagnostic, or go on
\* to interpret
CheckResolverErrors ==
    /\ phase = "resolve"
    /\ pc > Len(statements)
    /\ IF has_real_errors(resolver.errors)
       THEN /\ phase' = "rejected"
            /\ result' = first_real_error(resolver.errors)
            /\ UNCHANGED pc
       ELSE /\ phase' = "interpret"
            /\ pc' = 1
            /\ UNCHANGED result
    /\ UNCHANGED <<source, resolver, interpreter, call>>

\* one turn of the loop of Interpreter::interpret after `self.execute(statement)?`:
\* an error ends interpret, and so does a Return flow at top level
interpret_executed(r) ==
    /\ interpreter' = [r.st EXCEPT !.now = 0]
    /\ IF Aborted(r)
       THEN phase' = "aborted" /\ result' = r.err /\ UNCHANGED pc
       ELSE IF ~r.ok
       THEN phase' = "failed" /\ result' = r.err /\ UNCHANGED pc
       ELSE IF r.flow.f = "Return"
       THEN /\ phase' = "failed"
            /\ result' = new_runtime("Cannot return from top-level code.",
                                     "return", <<>>)
            /\ UNCHANGED pc
       ELSE pc' = pc + 1 /\ UNCHANGED <<phase, result>>

\* one turn of the loop of Interpreter::interpret
InterpretStatement ==
    /\ phase = "interpret"
    /\ pc <= Len(statements)
    /\ \E now \in 0..MaxClock :
         interpret_executed(stmt_accept(statements[pc], [interpreter EXCEPT !.now = now]))
    /\ UNCHANGED <<source, resolver, call>>

\* Interpreter::interpret after the last statement: Ok(())
InterpretDone ==
    /\ phase = "interpret"
    /\ pc > Len(statements)
    /\ phase' = "ok"
    /\ UNCHANGED <<source, pc, resolver, interpreter, result, call>>

Next == ResolveStatement \/ CheckResolverErrors \/ InterpretStatement \/ InterpretDone

Spec == Init /\ [][Next]_vars

\* Lox::run of main.rs: the parsed statements go to Interpreter::interpret of a
\* new interpreter; no Resolver is created and nothing is resolved
RunInit ==
    /\ source \in 1..Len(Programs)
    /\ phase = "interpret"
    /\ pc = 1
    /\ resolver = Resolver_new
    /\ interpreter = Interpreter_new
    /\ result = NoError
    /\ call = NoCall

RunNext == InterpretStatement \/ InterpretDone

SpecRun == RunInit /\ [][RunNext]_vars

\* The methods of Env called on their own.  The environments are a chain as
\* Env::new_global and Env::new_enclosed build it: environment 1 encloses
\* environment 2, and so on; environment i binds some of Names to the number
\* i, so that a value tells which environment it came from; `interpreter.env`
\* is the environment the method is called on.
Names == {"x", "y"}

Chain(n, bound) ==
    [i \in 1..n |-> [enclosing |-> i - 1, bindings |-> [name \in bound[i] |-> Num(i)]]]

EnvInit ==
    /\ source = 1
    /\ phase = "env"
    /\ pc = 1
    /\ resolver = Resolver_new
    /\ result = NoError
    /\ call = NoCall
    /\ \E n \in 1..MaxChain : \E bound \in [1..n -> SUBSET Names] : \E self \in 1..n :
         interpreter = [Interpreter_new EXCEPT !.envs = Chain(n, bound), !.env = self]

\* self.get_at(distance, name)
CallGetAt ==
    /\ phase = "env" /\ call = NoCall
    /\ \E distance \in 0..MaxChain : \E name \in Names :
         call' = [method |-> "get_at", distance |-> distance, name |-> name,
                  value |-> Nil, before |-> interpreter.envs,
                  returned |-> Env_get_at(interpreter.envs, interpreter.env,
                                          distance, name)]
    /\ UNCHANGED <<source, phase, pc, resolver, interpreter, result>>

\* what self.assign(name, value) returned and did to the environments
assign_returned(r, name, value) ==
    /\ interpreter' = [interpreter EXCEPT !.envs = r.envs]
    /\ call' = [method |-> "assign", distance |-> 0, name |-> name,
                value |-> value, before |-> interpreter.envs,
                returned |-> [ok |-> r.ok, v |-> Nil, err |-> r.err]]

\* self.assign(name, value), with a value no environment holds yet
CallAssign ==
    /\ phase = "env" /\ call = NoCall
    /\ \E name \in Names :
         assign_returned(Env_assign(interpreter.envs, interpreter.env, name, Num(0)),
                         name, Num(0))
    /\ UNCHANGED <<source, phase, pc, resolver, result>>

EnvNext == CallGetAt \/ CallAssign

SpecEnv == EnvInit /\ [][EnvNext]_vars

\* The operations of the resolver on one scope, in any order: declare, define
\* (of a name the scope holds) and the read of a variable.  `call` keeps the
\* last operation and the scopes before it, `pc` counts the operations.
ScopeInit ==
    /\ source = 1
    /\ phase = "scope"
    /\ pc = 0
    /\ resolver = begin_scope(Resolver_new)
    /\ interpreter = Interpreter_new
    /\ result = NoError
    /\ call = NoCall

\* the operation `method` on `name` has led to the resolver state rs
scope_called(method, name, rs) ==
    /\ resolver' = rs
    /\ call' = [method |-> method, name |-> name, before |-> resolver.scopes]
    /\ pc' = pc + 1
    /\ UNCHANGED <<source, phase, interpreter, result>>

\* self.declare(name)
CallDeclare ==
    /\ phase = "scope" /\ pc < MaxOps
    /\ \E name \in Names : scope_called("declare", name, declare(resolver, name))

\* self.define(name)
CallDefine ==
    /\ phase = "scope" /\ pc < MaxOps
    /\ \E name \in Names \cap DOMAIN resolver.scopes[1] :
         scope_called("define", name, define(resolver, name))

\* visit_variable of a read of `name`
CallRead ==
    /\ phase = "scope" /\ pc < MaxOps
    /\ \E name \in Names :
         scope_called("read", name, Resolver_visit_variable(resolver, Var(name, pc)))

ScopeNext == CallDeclare \/ CallDefine \/ CallRead

SpecScope == ScopeInit /\ [][ScopeNext]_vars

\* ------------------------------------------------------------------ properties
trace == interpreter.trace
Program == Programs[source]
Finished == phase \in {"ok", "failed", "rejected", "aborted"}
Max(S) == CHOOSE x \in S : \A y \in S : y <= x
RECURSIVE Factorial(_)
Factorial(n) == IF n <= 1 THEN 1 ELSE n * Factorial(n - 1)
\* falsy values of the language: nil and false
Falsy(v) == v = Nil \/ v = Bool(FALSE)

\* C1: every block execution and every user-function call that finishes - by
\* normal completion, with a Return, or with a runtime error raised inside it -
\* leaves the interpreter's current environment the one that was current
\* before it started (so between top-level statements it is the global one).
EnvRestoredOnExit ==
    /\ \A i \in DOMAIN trace :
         trace[i].ev = "exit" => trace[i].after = trace[i].before
    /\ phase # "aborted" => interpreter.env = 1

\* a call made inside a block failed with a runtime error raised inside a
\* nested block of its body; some call finished with a Return
EnvRestoredOnExitWitness ==
    /\ phase = "failed"
    /\ \E i, j \in DOMAIN trace :
         /\ trace[i].ev = "exit" /\ trace[i].kind = "block" /\ trace[i].how = "error"
         /\ trace[i].before # 1
         /\ trace[j].ev = "exit" /\ trace[j].kind = "call" /\ trace[j].how = "error"
         /\ trace[j].before # 1 /\ i < j

\* C2: when a statement of a block produces a Return signal, no later statement
\* of that block is executed and the block's own result carries that Return.
ReturnEndsBlock ==
    \A i \in DOMAIN trace :
      (trace[i].ev = "exit" /\ trace[i].kind = "block" /\ trace[i].how # "error") =>
        \A j \in DOMAIN trace[i].signals :
          trace[i].signals[j].f = "Return" =>
            /\ j = Len(trace[i].signals)
            /\ i < Len(trace)
            /\ trace[i + 1].ev = "blockflow"
            /\ trace[i + 1].flow = trace[i].signals[j]

\* C3: the program  fun fact(n){ if (n<=1) return 1; return n*fact(n-1); }
\* print fact(N);  ends normally having printed N!, the calls nesting N deep.
FactorialReturned ==
    Program.name = "fact" =>
      /\ \A i \in DOMAIN trace : trace[i].ev = "enter" => trace[i].depth <= Program.n
      /\ Finished => phase = "ok" /\ interpreter.out = << Num(Factorial(Program.n)) >>

\* C4: a read or assignment for which the resolver recorded distance d uses the
\* binding exactly d enclosing links from the environment current at the site.
ResolvedDistanceUsed ==
    \A i \in DOMAIN trace :
      (/\ trace[i].ev = "read" \/ (trace[i].ev = "write" /\ trace[i].how = "assign")
       /\ trace[i].site \in DOMAIN resolver.locals) =>
        trace[i].hops = resolver.locals[trace[i].site]

\* the environment that was current when the function statement of f was
\* evaluated
DeclEnv(f) == trace[CHOOSE i \in DOMAIN trace : trace[i].ev = "fundef" /\ trace[i].f = f].env

\* C5: every invocation of a user function runs in a new environment whose
\* enclosing environment is the one that was current when the function
\* statement was evaluated, never the caller's (unless that is the same one);
\* no two invocations share their environment.
CallsEncloseClosure ==
    \A i \in DOMAIN trace :
      trace[i].ev = "enter" =>
        /\ trace[i].enclosing = DeclEnv(trace[i].f)
        /\ trace[i].env # trace[i].caller
        /\ \A j \in DOMAIN trace :
             (j < i /\ trace[j].ev \in {"enter", "write", "read", "stmt"}) =>
               trace[j].env # trace[i].env

\* a function was called from a block whose environment is not the one the
\* function was declared in, and a function was called again while an earlier
\* invocation of it was still running
CallsEncloseClosureWitness ==
    /\ \E i \in DOMAIN trace :
         /\ trace[i].ev = "enter" /\ trace[i].caller # trace[i].enclosing
         /\ trace[i].caller # 1
    /\ \E i, j \in DOMAIN trace :
         /\ i < j /\ trace[i].ev = "enter" /\ trace[j].ev = "enter"
         /\ trace[i].f = trace[j].f /\ trace[j].depth > trace[i].depth

RECURSIVE Ancestor(_, _)
\* the environment k enclosing links away from e
Ancestor(e, k) == IF k = 0 THEN e ELSE Ancestor(interpreter.envs[e].enclosing, k - 1)

\* the history positions before i that bound or assigned `name` in env e
WritesBefore(i, e, name) ==
    {j \in 1..(i - 1) : trace[j].ev = "write" /\ trace[j].env = e /\ trace[j].name = name}

\* the block or call that created env e has exited before history position i
ExitedBefore(i, e) ==
    \E j \in 1..(i - 1) : trace[j].ev = "exit" /\ trace[j].scope = e

\* C6: closures capture their environment by reference and it outlives the
\* block or call that created it: every read yields the value most recently
\* bound or assigned in the environment it reads from - whichever function
\* made that assignment or `var`, and whether or not the environment's creator
\* has exited - and a read the resolver recorded no distance for finds the
\* nearest binding on the chain from the current environment, a `var` executed
\* after the function was declared included.
ClosuresShareEnv ==
    /\ \A i \in DOMAIN trace :
         trace[i].ev = "read" =>
           /\ WritesBefore(i, trace[i].env, trace[i].name) # {}
           /\ trace[i].v = trace[Max(WritesBefore(i, trace[i].env, trace[i].name))].v
           /\ trace[i].env = Ancestor(trace[i].cur, trace[i].hops)
           /\ trace[i].site \notin DOMAIN resolver.locals =>
                \A k \in 0..(trace[i].hops - 1) :
                  WritesBefore(i, Ancestor(trace[i].cur, k), trace[i].name) = {}
    /\ (Program.name = "counter" /\ phase = "ok") =>
         interpreter.out = << Num(1), Num(2) >>
    /\ (Program.name = "shared" /\ phase = "ok") =>
         interpreter.out = << Num(1), Num(2) >>
    /\ (Program.name = "late_var" /\ phase = "ok") =>
         interpreter.out = << Str("global"), Str("block") >>

\* after the block that created an environment exited, one function assigned a
\* binding of it and a call of another function then read the assigned value
ClosuresShareEnvWitness ==
    \E i, j \in DOMAIN trace :
      /\ j < i
      /\ trace[i].ev = "read" /\ trace[j].ev = "write" /\ trace[j].how = "assign"
      /\ trace[j].env = trace[i].env /\ trace[j].name = trace[i].name
      /\ trace[i].v = trace[j].v
      /\ ExitedBefore(j, trace[i].env)
      /\ trace[j].hops > 0 /\ trace[i].hops > 0
      /\ Ancestor(trace[i].cur, 1) = trace[i].env
      /\ \E a, b \in DOMAIN trace :
           /\ trace[a].ev = "enter" /\ trace[a].env = trace[j].cur
           /\ trace[b].ev = "enter" /\ trace[b].env = trace[i].cur
           /\ trace[a].f # trace[b].f

\* C7: a `var` declaration executed inside a block defines the name only in
\* that block's environment; no other environment changes, so a same-named
\* binding of an enclosing environment keeps its value and is read again after
\* the block exits (var x=10; { var x=20; print x; } print x; prints 20, 10).
VarDefinesInBlockOnly ==
    /\ \A i \in DOMAIN trace :
         (trace[i].ev = "write" /\ trace[i].how = "var") =>
           /\ trace[i].env = trace[i].cur
           /\ trace[i].changed \subseteq {trace[i].cur}
    /\ (Program.name = "shadow" /\ phase = "ok") =>
         interpreter.out = << Num(20), Num(10) >>

\* a block declared a name an enclosing environment also binds, read its own
\* binding, and after the block's exit the outer binding was read, unchanged
VarDefinesInBlockOnlyWitness ==
    \E w, r1, x, r2 \in DOMAIN trace :
      /\ w < r1 /\ r1 < x /\ x < r2
      /\ trace[w].ev = "write" /\ trace[w].how = "var" /\ trace[w].outer # 0
      /\ trace[r1].ev = "read" /\ trace[r1].name = trace[w].name
      /\ trace[r1].env = trace[w].env /\ trace[r1].v = trace[w].v
      /\ trace[x].ev = "exit" /\ trace[x].kind = "block" /\ trace[x].scope = trace[w].env
      /\ trace[r2].ev = "read" /\ trace[r2].name = trace[w].name
      /\ trace[r2].env = trace[w].outer /\ trace[r2].v # trace[w].v

ArityMessage == "Expected {} arguments but got {}."

\* C8: a call of a callable with n parameters with m # n arguments fails with a
\* runtime error stating n and m, and nothing of the body runs (the call is the
\* last thing that happened); with m = n no arity error is raised and a user
\* function's body is entered.
ArityChecked ==
    /\ \A i \in DOMAIN trace :
         trace[i].ev = "invoke" =>
           IF trace[i].n # trace[i].m
           THEN /\ i = Len(trace)
                /\ phase = "failed"
                /\ result.kind = "Runtime"
                /\ result.message = ArityMessage
                /\ result.nums = << trace[i].n, trace[i].m >>
           ELSE \/ interpreter.funs[trace[i].f].native
                \/ i = Len(trace) /\ phase = "aborted"
                \/ i < Len(trace) /\ trace[i + 1].ev = "enter" /\ trace[i + 1].f = trace[i].f
    /\ (phase = "failed" /\ result.message = ArityMessage) =>
         /\ trace[Len(trace)].ev = "invoke"
         /\ trace[Len(trace)].n # trace[Len(trace)].m
    /\ (Program.name = "arity" /\ Program.n = Program.m /\ phase = "ok") =>
         interpreter.out = << Str("body"), Str("after") >>
    /\ (Program.name = "arity" /\ Program.n # Program.m /\ Finished) =>
         phase = "failed" /\ interpreter.out = <<>>

\* a function with at least one parameter was called with more arguments than
\* parameters and the call failed
ArityCheckedWitness ==
    /\ phase = "failed"
    /\ result.message = ArityMessage
    /\ trace[Len(trace)].ev = "invoke"
    /\ trace[Len(trace)].n > 0
    /\ trace[Len(trace)].m > trace[Len(trace)].n

\* whether `L op R` ends with L: `and` with a falsy L, `or` with a truthy L
EndsWithLeft(op, left) == IF op = "AND" THEN Falsy(left) ELSE ~Falsy(left)

OwnInitializerMessage == "Can't read local variable in its own initializer."

RECURSIVE ExprReads(_, _), ExprReadsAll(_, _, _)
\* how many times expression e reads the variable `name`
ExprReads(e, name) ==
    CASE e.k = "Literal" -> 0
      [] e.k = "Grouping" -> ExprReads(e.expression, name)
      [] e.k = "Variable" -> IF e.name = name THEN 1 ELSE 0
      [] e.k = "Assign" -> ExprReads(e.value, name)
      [] e.k \in {"Logical", "Binary"} -> ExprReads(e.left, name) + ExprReads(e.right, name)
      [] e.k = "Call" -> ExprReads(e.callee, name) + ExprReadsAll(e.args, 1, name)
ExprReadsAll(es, i, name) ==
    IF i > Len(es) THEN 0 ELSE ExprReads(es[i], name) + ExprReadsAll(es, i + 1, name)

RECURSIVE SelfReads(_), SelfReadsAll(_, _)
\* how many reads of the declared name the initializers of the `var`
\* declarations of statement s contain, at whatever depth s nests them
SelfReads(s) ==
    CASE s.k = "Var" -> ExprReads(s.initializer, s.name)
      [] s.k = "Block" -> SelfReadsAll(s.statements, 1)
      [] s.k = "Function" -> SelfReads(s.body)
      [] s.k = "IfStmt" ->
           SelfReads(s.then_branch)
           + (IF s.else_branch = NoStmt THEN 0 ELSE SelfReads(s.else_branch))
      [] s.k = "WhileStmt" -> SelfReads(s.body)
      [] OTHER -> 0
SelfReadsAll(ss, i) ==
    IF i > Len(ss) THEN 0 ELSE SelfReads(ss[i]) + SelfReadsAll(ss, i + 1)

OwnInitializerErrors ==
    {i \in DOMAIN resolver.errors :
       resolver.errors[i].message = OwnInitializerMessage /\ resolver.errors[i].kind # "Warning"}

\* C10: the resolver reports one error-class 'own initializer' diagnostic for
\* every read of the declared name in a `var` initializer, at every nesting
\* level, the top level included, and for nothing else: in particular not for
\* a read of a name bound only in an outer scope.  A program with such a read
\* is rejected before evaluation.
OwnInitializerDetected ==
    /\ Cardinality(OwnInitializerErrors) =
         SelfReadsAll(SubSeq(statements, 1,
                             IF phase = "resolve" THEN pc - 1 ELSE Len(statements)), 1)
    /\ phase \in {"interpret", "ok", "failed", "aborted"} => SelfReadsAll(statements, 1) = 0
    /\ (phase = "rejected" /\ result.message = OwnInitializerMessage) =>
         SelfReadsAll(statements, 1) > 0

\* the top-level program `var a = a;` was rejected with the diagnostic
OwnInitializerDetectedWitness ==
    /\ Program.name = "self" /\ Program.n = 0
    /\ phase = "rejected"
    /\ result.message = OwnInitializerMessage
    /\ result.kind # "Warning"

\* the statements resolved so far
Resolved ==
    SubSeq(statements, 1, IF phase = "resolve" THEN pc - 1 ELSE Len(statements))

DuplicateMessage == "Already a variable with this name in this scope"

RECURSIVE Declares(_), DeclaresAll(_, _)
\* the names statement s declares in the scope it stands in, in order
Declares(s) ==
    CASE s.k \in {"Var", "Function"} -> << s.name >>
      [] s.k = "IfStmt" ->
           Declares(s.then_branch)
           \o (IF s.else_branch = NoStmt THEN <<>> ELSE Declares(s.else_branch))
      [] s.k = "WhileStmt" -> Declares(s.body)
      [] OTHER -> <<>>
DeclaresAll(ss, i) ==
    IF i > Len(ss) THEN <<>> ELSE Declares(ss[i]) \o DeclaresAll(ss, i + 1)

\* how many entries of `names` repeat an earlier one
Repeats(names) == Len(names) - Cardinality({names[i] : i \in DOMAIN names})

RECURSIVE Redeclared(_), RedeclaredAll(_, _)
\* how many declarations in the blocks and function bodies of statement s, at
\* whatever depth, declare a name their own block or function (parameters
\* included) has declared before
Redeclared(s) ==
    CASE s.k = "Block" ->
           Repeats(DeclaresAll(s.statements, 1)) + RedeclaredAll(s.statements, 1)
      [] s.k = "Function" ->
           Repeats(s.parameters \o DeclaresAll(s.body.statements, 1))
           + RedeclaredAll(s.body.statements, 1)
      [] s.k = "IfStmt" ->
           Redeclared(s.then_branch)
           + (IF s.else_branch = NoStmt THEN 0 ELSE Redeclared(s.else_branch))
      [] s.k = "WhileStmt" -> Redeclared(s.body)
      [] OTHER -> 0
RedeclaredAll(ss, i) ==
    IF i > Len(ss) THEN 0 ELSE Redeclared(ss[i]) + RedeclaredAll(ss, i + 1)

DuplicateErrors ==
    {i \in DOMAIN resolver.errors : resolver.errors[i].message = DuplicateMessage}

\* C11: the resolver adds one error-class 'duplicate declaration' diagnostic
\* for every declaration of a name that the same resolver scope (a block, or a
\* function body with its parameters) already holds, and for nothing else: a
\* declaration that shadows a name of an enclosing block adds none.  A program
\* with such a duplicate is not evaluated.
DuplicateDeclarationReported ==
    /\ Cardinality(DuplicateErrors) = RedeclaredAll(Resolved, 1)
    /\ \A i \in DuplicateErrors : resolver.errors[i].kind = "Internal"
    /\ phase \in {"interpret", "ok", "failed", "aborted"} => RedeclaredAll(statements, 1) = 0
    /\ (phase = "rejected" /\ result.message = DuplicateMessage) =>
         RedeclaredAll(statements, 1) > 0
    /\ Program.name = "shadowed" => DuplicateErrors = {} /\ phase # "rejected"

\* { var a = 1; var a = 2; print a; } was rejected with the diagnostic
DuplicateDeclarationReportedWitness ==
    /\ Program.name = "dup" /\ Program.n = 1
    /\ phase = "rejected"
    /\ result.message = DuplicateMessage
    /\ result.kind = "Internal"
    /\ Cardinality(DuplicateErrors) = 1

TopLevelReturnMessage == "Cannot return from top level code."

RECURSIVE ReturnsOutside(_), ReturnsOutsideAll(_, _)
\* how many `return` statements of statement s are inside no function body
ReturnsOutside(s) ==
    CASE s.k = "ReturnStmt" -> 1
      [] s.k = "Block" -> ReturnsOutsideAll(s.statements, 1)
      [] s.k = "IfStmt" ->
           ReturnsOutside(s.then_branch)
           + (IF s.else_branch = NoStmt THEN 0 ELSE ReturnsOutside(s.else_branch))
      [] s.k = "WhileStmt" -> ReturnsOutside(s.body)
      [] OTHER -> 0
ReturnsOutsideAll(ss, i) ==
    IF i > Len(ss) THEN 0 ELSE ReturnsOutside(ss[i]) + ReturnsOutsideAll(ss, i + 1)

TopLevelReturnErrors ==
    {i \in DOMAIN resolver.errors : resolver.errors[i].message = TopLevelReturnMessage}

\* C12: the resolver reports one error-class 'cannot return from top level'
\* diagnostic for every `return` that is inside no function body, and for no
\* other: a `return` in a function, however deeply the function is nested, is
\* not reported, and a top-level `return` that follows a function declaration
\* is.
TopLevelReturnReported ==
    /\ Cardinality(TopLevelReturnErrors) = ReturnsOutsideAll(Resolved, 1)
    /\ \A i \in TopLevelReturnErrors : resolver.errors[i].kind = "Parse"
    /\ phase \in {"interpret", "ok", "failed", "aborted"} =>
         ReturnsOutsideAll(statements, 1) = 0
    /\ (phase = "rejected" /\ result.message = TopLevelReturnMessage) =>
         ReturnsOutsideAll(statements, 1) > 0

\* fun f() { return 1; } print f(); return 2; was rejected for its last
\* statement only
TopLevelReturnReportedWitness ==
    /\ Program.name = "return_after_fun" /\ Program.n = 0
    /\ phase = "rejected"
    /\ result.message = TopLevelReturnMessage
    /\ Cardinality(TopLevelReturnErrors) = 1

\* the diagnostics resolving the k-th top-level statement yields (between two
\* top-level statements no scope is open and no function is being resolved, so
\* they do not depend on the statements before it)
Diagnostics(k) == resolve_statement(statements[k], Resolver_new).errors

\* resolving the program yields at least one error-class diagnostic
HasErrorDiagnostic == \E k \in DOMAIN statements : has_real_errors(Diagnostics(k))

\* what has been evaluated: statements run, values printed
Evaluated == {i \in DOMAIN trace : trace[i].ev = "stmt"}

\* C13: a program whose resolution yields an error-class diagnostic has none of
\* its statements evaluated, and the driver reports the first such diagnostic;
\* a program whose resolution yields warnings only, or nothing, is interpreted.
ResolutionGatesEvaluation ==
    /\ HasErrorDiagnostic => Evaluated = {} /\ interpreter.out = <<>>
    /\ (~HasErrorDiagnostic /\ Finished) => phase # "rejected"

\* the diagnostics the scope end recorded as event e of the resolver added
AddedAt(e) == (e.from + 1)..e.to

UnusedMessages ==
    ("DECL" :> "Variable '{}' is declared but never used")
    @@ ("DEF" :> "Variable '{}' is defined but never used")

\* the unused-variable warnings of the resolver
UnusedWarnings ==
    {j \in DOMAIN resolver.errors :
       \E k \in DOMAIN UnusedMessages : resolver.errors[j].message = UnusedMessages[k]}

RECURSIVE StmtReads(_, _), StmtReadsAll(_, _, _)
\* how many times statement s reads the variable `name`
StmtReads(s, name) ==
    CASE s.k \in {"Expression", "Print"} -> ExprReads(s.expression, name)
      [] s.k = "Var" -> ExprReads(s.initializer, name)
      [] s.k = "Block" -> StmtReadsAll(s.statements, 1, name)
      [] s.k = "IfStmt" ->
           ExprReads(s.condition, name) + StmtReads(s.then_branch, name)
           + (IF s.else_branch = NoStmt THEN 0 ELSE StmtReads(s.else_branch, name))
      [] s.k = "WhileStmt" -> ExprReads(s.condition, name) + StmtReads(s.body, name)
      [] s.k = "Function" -> StmtReads(s.body, name)
      [] s.k = "ReturnStmt" -> ExprReads(s.value, name)
StmtReadsAll(ss, i, name) ==
    IF i > Len(ss) THEN 0 ELSE StmtReads(ss[i], name) + StmtReadsAll(ss, i + 1, name)

\* C15: resolving the target of an assignment changes the state of no name, so
\* a local that is declared and then only assigned, never read, ends its scope
\* not Used and gets the unused-variable warning.
AssignIsNoUse ==
    /\ \A i \in DOMAIN resolver.trace :
         /\ resolver.trace[i].ev = "assign" =>
              resolver.trace[i].after = resolver.trace[i].before
         /\ resolver.trace[i].ev = "end_scope" =>
              \A name \in DOMAIN resolver.trace[i].scope :
                StmtReadsAll(statements, 1, name) = 0 =>
                  /\ resolver.trace[i].scope[name] # "USE"
                  /\ \E j \in AddedAt(resolver.trace[i]) :
                       /\ resolver.errors[j].name = name
                       /\ resolver.errors[j].kind = "Warning"
    /\ (Program.name = "assigned_only" /\ phase # "resolve") =>
         /\ Cardinality(UnusedWarnings) = 1
         /\ \A j \in UnusedWarnings : resolver.errors[j].name = "x"

\* { var x = 1; x = 2; }: the assignment found x Defined and left it so, and
\* the block's end warned about x
AssignIsNoUseWitness ==
    /\ Program.name = "assigned_only" /\ Program.n = 1 /\ phase = "ok"
    /\ \E i, k \in DOMAIN resolver.trace :
         /\ i < k
         /\ resolver.trace[i].ev = "assign" /\ resolver.trace[i].name = "x"
         /\ resolver.trace[i].before = << [x |-> "DEF"] >>
         /\ resolver.trace[k].ev = "end_scope"
         /\ resolver.trace[k].scope = [x |-> "DEF"]
         /\ resolver.trace[k].to = resolver.trace[k].from + 1
         /\ resolver.errors[resolver.trace[k].to].name = "x"

\* the innermost of the scopes that holds `name`, 0 if none does
Innermost(scopes, name) == Max({0} \cup {i \in DOMAIN scopes : name \in DOMAIN scopes[i]})

\* C16: a read of a name marks Used one binding at most: the one of the
\* innermost open scope that holds the name (if it is Defined); every other
\* scope, and every other name, keeps its state.  An unread inner variable that
\* shadows a read outer one is still warned about (by the first scope to end),
\* and so is an unread outer variable shadowed by a read inner one (by a later
\* scope end).
ReadMarksInnermost ==
    /\ \A i \in DOMAIN resolver.trace :
         resolver.trace[i].ev = "read" =>
           /\ Len(resolver.trace[i].after) = Len(resolver.trace[i].before)
           /\ \A k \in DOMAIN resolver.trace[i].before :
                resolver.trace[i].after[k] =
                  IF /\ k = Innermost(resolver.trace[i].before, resolver.trace[i].name)
                     /\ resolver.trace[i].before[k][resolver.trace[i].name] = "DEF"
                  THEN [resolver.trace[i].before[k]
                          EXCEPT ![resolver.trace[i].name] = "USE"]
                  ELSE resolver.trace[i].before[k]
    /\ (Program.name \in {"shadow_unused", "inner_read"} /\ Program.n > 0
        /\ phase # "resolve") =>
         /\ Cardinality(UnusedWarnings) = 1
         /\ \A j \in UnusedWarnings : resolver.errors[j].name = "a"
         /\ \E i \in DOMAIN resolver.trace :
              /\ resolver.trace[i].ev = "end_scope"
              /\ resolver.trace[i].to = resolver.trace[i].from + 1
              /\ Len(resolver.errors) = 1
              /\ (Program.name = "shadow_unused") =
                   (\A k \in 1..(i - 1) : resolver.trace[k].ev = "begin_scope")

\* { var a = 1; { var a = 2; print a; } }: the read marked the inner a and
\* left the outer a Defined, which the outer block's end warned about
ReadMarksInnermostWitness ==
    /\ Program.name = "inner_read" /\ Program.n = 1 /\ phase = "ok"
    /\ \E i \in DOMAIN resolver.trace :
         /\ resolver.trace[i].ev = "read"
         /\ resolver.trace[i].before = << [a |-> "DEF"], [a |-> "DEF"] >>
         /\ resolver.trace[i].after = << [a |-> "DEF"], [a |-> "USE"] >>
    /\ Cardinality(UnusedWarnings) = 1

RECURSIVE LinksUp(_, _, _)
\* the environment d enclosing-links up from e (e itself for d = 0), 0 if the
\* chain ends before
LinksUp(envs, e, d) ==
    IF d = 0 \/ e = 0 THEN e ELSE LinksUp(envs, envs[e].enclosing, d - 1)

\* the environment Env's method was called on
Self == interpreter.env

\* whether the environment d links up from Self exists and binds the name of
\* the call
BoundUp(d) ==
    /\ LinksUp(call.before, Self, d) # 0
    /\ call.name \in DOMAIN call.before[LinksUp(call.before, Self, d)].bindings

\* C17: get_at(d, name) called on E returns the value bound to name in the
\* environment exactly d enclosing-links up from E, for every d >= 0: E itself
\* for d = 0, its direct parent for d = 1.
GetAtReadsDistance ==
    (call.method = "get_at" /\ BoundUp(call.distance)) =>
      /\ call.returned.ok
      /\ call.returned.v =
           call.before[LinksUp(call.before, Self, call.distance)].bindings[call.name]

\* C18: get_at(d, name) returns an error of kind Internal - it neither crashes
\* nor answers a value - whenever name is not bound in the environment d links
\* up, the case of a chain with fewer than d enclosing environments included.
GetAtFailsInternal ==
    (call.method = "get_at" /\ ~BoundUp(call.distance)) =>
      /\ ~call.returned.ok
      /\ call.returned.err.kind = "Internal"

\* the fewest links up from Self at which the name of the call is bound
Nearest == CHOOSE d \in 0..Len(call.before) :
             BoundUp(d) /\ \A k \in 0..(d - 1) : ~BoundUp(k)

\* C19: assign of a name that no environment of the chain from the current one
\* up to the global one binds returns the runtime error 'Undefined variable'
\* and leaves every environment as it was: the name is not created.
AssignUndefinedFails ==
    (call.method = "assign" /\ \A d \in 0..Len(call.before) : ~BoundUp(d)) =>
      /\ ~call.returned.ok
      /\ call.returned.err =
           new_runtime("Undefined variable '{}' during assign.", call.name, <<>>)
      /\ interpreter.envs = call.before

\* assign of a name bound nowhere, called on the innermost of several
\* environments that bind another name, failed
AssignUndefinedFailsWitness ==
    /\ call.method = "assign" /\ ~call.returned.ok
    /\ call.returned.err.kind = "Runtime"
    /\ Len(call.before) > 1 /\ Self = Len(call.before)
    /\ \A i \in DOMAIN call.before : DOMAIN call.before[i].bindings = Names \ {call.name}
    /\ interpreter.envs = call.before

UndefinedReadMessage == "Undefined variable '{}' during visit."

\* the environments of the chain that starts at environment e
ChainFrom(e) ==
    {LinksUp(interpreter.envs, e, d) : d \in 0..Len(interpreter.envs)} \ {0}

\* C21: a read of a name that no environment of the current chain binds is a
\* runtime 'Undefined variable' error that ends the program, never a value;
\* every value read comes from a binding made before.  A variable declared in
\* a block cannot be read after the block has exited.
UndefinedReadFails ==
    /\ \A i \in DOMAIN trace :
         /\ trace[i].ev = "read" =>
              /\ trace[i].env \in ChainFrom(trace[i].cur)
              /\ WritesBefore(i, trace[i].env, trace[i].name) # {}
         /\ trace[i].ev = "miss" =>
              /\ \A e \in ChainFrom(trace[i].cur) : WritesBefore(i, e, trace[i].name) = {}
              /\ phase = "failed"
              /\ result = new_runtime(UndefinedReadMessage, trace[i].name, <<>>)
              /\ \A j \in (i + 1)..Len(trace) : trace[j].ev = "exit"
    /\ (phase = "failed" /\ result.message = UndefinedReadMessage) =>
         \E i \in DOMAIN trace : trace[i].ev = "miss" /\ trace[i].name = result.name
    /\ (Program.name = "after_block" /\ Finished) =>
         /\ phase = "failed" /\ result.name = "a"
         /\ interpreter.out = << Num(1) >>

\* { var a = 1; print a; } print a; failed at the second read: the block's
\* environment, which is not in the chain any more, still holds a
UndefinedReadFailsWitness ==
    /\ Program.name = "after_block" /\ Program.n = 0
    /\ phase = "failed" /\ result.kind = "Runtime" /\ result.name = "a"
    /\ interpreter.out = << Num(1) >>
    /\ \E i \in DOMAIN trace :
         /\ trace[i].ev = "miss" /\ trace[i].name = "a" /\ trace[i].cur = 1
         /\ \E e \in DOMAIN interpreter.envs : "a" \in DOMAIN interpreter.envs[e].bindings

\* the history positions after i that bound or assigned `name` in env e
WritesAfter(i, e, name) ==
    {j \in (i + 1)..Len(trace) :
       trace[j].ev = "write" /\ trace[j].env = e /\ trace[j].name = name}

\* C22: a runtime error raised by a statement ends interpret at once with that
\* error: once a block or a call has been left by an error, nothing happens
\* but further blocks and calls being left by it - no later statement runs and
\* nothing catches it - and what was written before the error stays written.
RuntimeErrorEndsProgram ==
    /\ \A i \in DOMAIN trace :
         /\ (trace[i].ev = "exit" /\ trace[i].how = "error") =>
              /\ phase = "failed" /\ result.kind = "Runtime"
              /\ \A j \in (i + 1)..Len(trace) :
                   trace[j].ev = "exit" /\ trace[j].how = "error"
         /\ (trace[i].ev = "write" /\ WritesAfter(i, trace[i].env, trace[i].name) = {}) =>
              interpreter.envs[trace[i].env].bindings[trace[i].name] = trace[i].v
    /\ phase = "failed" => pc <= Len(statements) /\ result.kind = "Runtime"
    /\ (Program.name = "error_mid" /\ Finished) =>
         /\ phase = "failed" /\ result.name = "nope"
         /\ interpreter.out = << Num(2) >>
         /\ interpreter.envs[Program.n + 1].bindings["a"] = Num(2)
    /\ (Program.name = "error_deep" /\ Finished) =>
         /\ phase = "failed" /\ result.name = "nope"
         /\ interpreter.out = <<>>
         /\ interpreter.envs[Program.n + 1].bindings["i"] = Num(1)

\* the error raised in f, called from the block of a loop, left the call and
\* the block and ended the program; the assignment before it stayed
RuntimeErrorEndsProgramWitness ==
    /\ Program.name = "error_deep" /\ Program.n = 0
    /\ phase = "failed" /\ result.message = UndefinedReadMessage
    /\ interpreter.out = <<>>
    /\ interpreter.envs[1].bindings["i"] = Num(1)
    /\ \E i, j \in DOMAIN trace :
         /\ i < j /\ j = Len(trace)
         /\ trace[i].ev = "exit" /\ trace[i].kind = "call" /\ trace[i].how = "error"
         /\ trace[j].ev = "exit" /\ trace[j].kind = "block" /\ trace[j].how = "error"

\* the place of a state in Declared -> Defined -> Used
Rank(state) == CASE state = "DECL" -> 1 [] state = "DEF" -> 2 [] state = "USE" -> 3

\* C23: within one resolver scope no operation - declare, define or a read -
\* moves the state of a name backward along Declared -> Defined -> Used; a
\* name marked Used is never set back, a repeated declaration included.
ScopeStateMonotonic ==
    call.method \in {"declare", "define", "read"} =>
      \A name \in DOMAIN call.before[1] :
        /\ name \in DOMAIN resolver.scopes[1]
        /\ Rank(resolver.scopes[1][name]) >= Rank(call.before[1][name])

\* the reads of the history whose site has a distance recorded by the resolver
ResolvedReads ==
    {i \in 1..Len(trace) : trace[i].ev = "read" /\ trace[i].site \in DOMAIN resolver.locals}

\* C24: for every read of a local name the distance recorded by the resolver
\* is the number of enclosing links, at run time, from the environment current
\* at the read to the environment in which the name was defined; parameters
\* and the declarations of the body share one level, each nested block adds
\* exactly one.  (The evaluator looks the name up from the current
\* environment outward, so a read finds the binding at that distance or a
\* nearer one declared later.)
DistanceMatchesLinks ==
    /\ \A i \in ResolvedReads :
         LET d == resolver.locals[trace[i].site]
             e == LinksUp(interpreter.envs, trace[i].cur, d)
         IN /\ e # 0
            /\ \E j \in WritesBefore(i, e, trace[i].name) :
                  trace[j].how \in {"var", "fun", "param"}
            /\ trace[i].hops <= d
            /\ trace[i].hops = d => trace[i].env = e
    /\ (Program.name = "levels" /\ phase \in {"interpret", "ok", "failed"}) =>
         /\ \A id \in 1..5 : id \in DOMAIN resolver.locals
         /\ <<resolver.locals[1], resolver.locals[2], resolver.locals[3],
              resolver.locals[4], resolver.locals[5]>> = <<0, 1, 2, 2, 1>>
         /\ Finished => phase = "ok" /\ interpreter.out = <<Num(3)>>

DistanceMatchesLinksWitness ==
    /\ Program.name = "levels" /\ phase = "ok"
    /\ interpreter.out = <<Num(3)>>
    /\ \E i, j \in ResolvedReads :
         /\ trace[i].name = "p" /\ trace[j].name = "r"
         /\ trace[i].cur = trace[j].cur
         /\ trace[i].hops = 2 /\ resolver.locals[trace[i].site] = 2
         /\ trace[j].hops = 1 /\ resolver.locals[trace[j].site] = 1

\* C25: in a block, the call inside a local function to a sibling function
\* declared later in that block is resolved to the sibling's binding in the
\* block scope: a distance is recorded for the call site and the sibling is
\* marked Used (no unused warning for it); and a local function's own name is
\* Defined when its body is resolved, so a recursive call is resolved and adds
\* no 'own initializer' error.
SiblingCallResolved ==
    /\ (Program.name = "sibling" /\ Program.n >= 1 /\ phase # "resolve") =>
         /\ 1 \in DOMAIN resolver.locals
         /\ resolver.locals[1] = 1
         /\ \A j \in UnusedWarnings : resolver.errors[j].name # "g"
    /\ (Program.name = "self_rec" /\ Program.n >= 1 /\ phase # "resolve") =>
         /\ 2 \in DOMAIN resolver.locals
         /\ resolver.locals[2] = 2
         /\ \A j \in DOMAIN resolver.errors :
              resolver.errors[j].message # OwnInitializerMessage

\* the environments environment e holds a reference to: its enclosing one, and
\* through each function value among its bindings the closure of the function
RefersTo(e) ==
    LET env == interpreter.envs[e]
    IN ({env.enclosing}
        \cup {interpreter.funs[env.bindings[x].f].closure :
                x \in {y \in DOMAIN env.bindings : env.bindings[y].t = "fn"}}) \ {0}

RECURSIVE ReachedFrom(_, _)
\* the environments reached from those of S in at most k further references
ReachedFrom(S, k) ==
    IF k = 0 THEN S
    ELSE ReachedFrom(S \cup UNION {RefersTo(e) : e \in S}, k - 1)

\* C26: the references among environments and function values (an environment
\* to its enclosing one and to the functions it binds, a function to its
\* closure) form no cycle: no environment is reached from itself.
NoReferenceCycle ==
    \A e \in DOMAIN interpreter.envs :
      e \notin ReachedFrom(RefersTo(e), Len(interpreter.envs))

\* C27: resolving a top-level `var` whose initializer does not read the
\* declared name adds no diagnostic of any class, in particular no
\* unused-variable warning, whether or not the variable is read later.
TopLevelVarSilent ==
    \A k \in 1..Len(Resolved) :
      (statements[k].k = "Var" /\ SelfReads(statements[k]) = 0) =>
        Diagnostics(k) = <<>>

\* the body of the loop turn ended at history position i (after which the loop
\* goes on to its next turn) executed a return: the body is a return
\* statement, or a block one of whose statements answered Return
BodyReturned(i) ==
    \/ trace[i].flow.f = "Return"
    \/ /\ i > 2
       /\ trace[i - 1].ev = "blockflow"
       /\ trace[i - 2].ev = "exit" /\ trace[i - 2].kind = "block"
       /\ \E j \in DOMAIN trace[i - 2].signals : trace[i - 2].signals[j].f = "Return"

\* C28: a return executed in the body of a while loop inside a function ends
\* the loop and the call: the loop goes on to no further turn after a turn
\* whose body executed a return, and the call of
\* fun f() { while (true) { return 1; } } ends with 1.
ReturnEndsLoop ==
    /\ \A i \in DOMAIN trace : trace[i].ev = "iteration" => ~BodyReturned(i)
    /\ (Program.name = "while_return" /\ Finished) =>
         phase = "ok" /\ interpreter.out = <<Num(1)>>

\* the assignments made so far to the global `name`, as history positions
AssignedAt(name) ==
    {i \in DOMAIN trace : trace[i].ev = "write" /\ trace[i].how = "assign"
                          /\ trace[i].env = 1 /\ trace[i].name = name}

\* the value of the global `name`
Global(name) == interpreter.envs[1].bindings[name]

\* C29: in a call the callee and then the arguments, left to right, are
\* evaluated before the callee is tested for being callable and before the
\* arity test: when 'Can only call functions.' or the arity error is raised
\* every argument has had its effect; an error in the callee prevents every
\* argument and an error in argument i prevents the arguments after it.
ArgumentsBeforeChecks ==
    /\ \A i \in DOMAIN trace :
         (trace[i].ev = "invoke" /\ Program.name \in {"call_arity", "call_argerr"}) =>
           /\ AssignedAt("a") # {} /\ AssignedAt("b") # {}
           /\ \A j \in AssignedAt("a"), k \in AssignedAt("b") : j < k /\ k < i
    /\ (Program.name = "call_nonfn" /\ Finished) =>
         /\ phase = "failed"
         /\ result = new_runtime("Can only call functions.", "", <<>>)
         /\ Global("a") = Num(1) /\ Global("b") = Num(2)
         /\ \A j \in AssignedAt("a"), k \in AssignedAt("b") : j < k
         /\ \A i \in DOMAIN trace : trace[i].ev # "invoke"
    /\ (Program.name = "call_arity" /\ Finished) =>
         /\ phase = "failed"
         /\ result = new_runtime("Expected {} arguments but got {}.", "", <<1, 2>>)
         /\ Global("a") = Num(1) /\ Global("b") = Num(2)
         /\ interpreter.out = <<>>
    /\ (Program.name = "call_argerr" /\ Finished) =>
         /\ phase = "failed"
         /\ result = new_runtime(UndefinedReadMessage, "nope", <<>>)
         /\ Global("a") = Num(1) /\ Global("b") = Num(0)
         /\ AssignedAt("b") = {}
         /\ \A i \in DOMAIN trace : trace[i].ev # "invoke"
    /\ (Program.name = "call_nocallee" /\ Finished) =>
         /\ phase = "failed"
         /\ result = new_runtime(UndefinedReadMessage, "nope", <<>>)
         /\ Global("a") = Num(0)
         /\ AssignedAt("a") = {}

ArgumentsBeforeChecksWitness ==
    /\ Program.name = "call_nonfn" /\ phase = "failed"
    /\ result.message = "Can only call functions."
    /\ Global("n") = Num(1)
    /\ Global("a") = Num(1) /\ Global("b") = Num(2)
    /\ \E j \in AssignedAt("a"), k \in AssignedAt("b") : j < k

RECURSIVE Scopes(_, _), ScopesAll(_, _, _)
\* how many scopes resolving statement s opens, s standing at top level or not:
\* one for a block, one for a function, one for a `var` at top level
Scopes(s, top) ==
    CASE s.k = "Block" -> 1 + ScopesAll(s.statements, 1, FALSE)
      [] s.k = "Function" -> 1 + ScopesAll(s.body.statements, 1, FALSE)
      [] s.k = "Var" -> IF top THEN 1 ELSE 0
      [] s.k = "IfStmt" ->
           Scopes(s.then_branch, FALSE)
           + (IF s.else_branch = NoStmt THEN 0 ELSE Scopes(s.else_branch, FALSE))
      [] s.k = "WhileStmt" -> Scopes(s.body, FALSE)
      [] OTHER -> 0
ScopesAll(ss, i, top) ==
    IF i > Len(ss) THEN 0 ELSE Scopes(ss[i], top) + ScopesAll(ss, i + 1, top)

\* the begin_scope (end_scope) events among the first i of the resolver's history
Begun(i) == {j \in 1..i : resolver.trace[j].ev = "begin_scope"}
Ended(i) == {j \in 1..i : resolver.trace[j].ev = "end_scope"}

\* C30: between the statements of resolve_statements, started with no scope
\* and function context NONE, the scope stack is empty and the context NONE,
\* whatever diagnostics were recorded; every begin_scope is matched by one
\* end_scope at the same depth and no end_scope finds the stack empty.
ResolverBalanced ==
    /\ resolver.scopes = <<>>
    /\ resolver.current_function = "NONE"
    /\ Cardinality(Begun(Len(resolver.trace))) = ScopesAll(Resolved, 1, TRUE)
    /\ Cardinality(Ended(Len(resolver.trace))) = Cardinality(Begun(Len(resolver.trace)))
    /\ \A i \in DOMAIN resolver.trace :
         /\ Cardinality(Ended(i)) <= Cardinality(Begun(i))
         /\ resolver.trace[i].ev \in {"begin_scope", "end_scope"} =>
              resolver.trace[i].depth >= 1
         /\ resolver.trace[i].ev = "end_scope" =>
              /\ resolver.trace[i].depth = 1 + Cardinality(Begun(i)) - Cardinality(Ended(i))
              /\ \E j \in Begun(i) :
                   /\ resolver.trace[j].depth = resolver.trace[i].depth
                   /\ \A k \in (j + 1)..(i - 1) :
                        resolver.trace[k].ev \in {"begin_scope", "end_scope"} =>
                          resolver.trace[k].depth > resolver.trace[i].depth

ResolverBalancedWitness ==
    /\ phase = "rejected"
    /\ has_real_errors(resolver.errors)
    /\ resolver.scopes = <<>> /\ resolver.current_function = "NONE"
    /\ \E i \in DOMAIN resolver.trace :
         resolver.trace[i].ev = "end_scope" /\ resolver.trace[i].depth = MaxNest + 1
    /\ Cardinality(Ended(Len(resolver.trace))) >= MaxNest + 1

=============================================================================
